---- MODULE Spec2Model ----
(***************************************************************************)
(* Model of the music API (users, songs, favorites) of musica_api: the     *)
(* persistent store, the JWT codec, the authentication dependency and the  *)
(* request handlers of the four routers.  A mutating handler reads and     *)
(* checks in one step and commits in a later one (each request has its own *)
(* session and FastAPI runs the handlers on a thread pool), so requests of *)
(* different workers interleave between a handler's reads and its commit.  *)
(***************************************************************************)
EXTENDS Integers, FiniteSets, Sequences, TLC

VARIABLES usuarios, canciones, favoritos, tokens, emitidos, now, pend, resp

vars == <<usuarios, canciones, favoritos, tokens, emitidos, now, pend, resp>>

\* The persistent store: the three tables.
Store == <<usuarios, canciones, favoritos>>

(***************************************************************************)
(* Bounds of the model.                                                    *)
(***************************************************************************)
NumCorreos == 3
MaxUsuarioId == 3
MaxCancionId == 2
MaxFavoritoId == 2
NumWorkers == 2
MaxTokens == 3
MaxNow == 4
MaxTtl == 2
\* Clock resolution: the clock advances in ticks, the JWT exp claim is in
\* whole seconds.
TicksPerSecond == 2
\* Scaled length of a minute, in seconds.
SecondsPerMinute == 1

\* settings.jwt_expiration_minutes
ACCESS_TOKEN_EXPIRE_MINUTES == 1

Correos == 1..NumCorreos
Passwords == {1, 2}
\* Passwords are numbered; this one stands for a password of five characters.
ContrasenaCorta == 3
\* Two passwords of 73 bytes that differ in their last byte only.
ContrasenasLargas == {4, 5}

\* The UTF-8 bytes of a password: five for the short one, 73 for the long
\* ones (72 common bytes and a last byte of their own), eight for the others.
Bytes(p) ==
    IF p = ContrasenaCorta THEN [i \in 1..5 |-> p]
    ELSE IF p \in ContrasenasLargas THEN [i \in 1..73 |-> IF i <= 72 THEN 9 ELSE p]
    ELSE [i \in 1..8 |-> p]

Largo(p) == Len(Bytes(p))
Workers == 1..NumWorkers

\* JSON null / Python None, and a field absent from a request body.
Null == 0
Unset == -1

USUARIO == "usuario"
ADMINISTRADOR == "administrador"
RolNull == "null"

Max(S) == IF S = {} THEN 0 ELSE CHOOSE x \in S : \A y \in S : y <= x

\* INTEGER PRIMARY KEY without AUTOINCREMENT: the next id is the largest id
\* of the table plus one.
NextId(tabla) == Max({f.id : f \in tabla}) + 1

Fila(tabla, id) == CHOOSE f \in tabla : f.id = id

Existe(tabla, id) == \E f \in tabla : f.id = id

(***************************************************************************)
(* Password hashing: CryptContext(schemes=["bcrypt"]).  bcrypt keys its    *)
(* digest with the first 72 bytes of the password and the context does not *)
(* set truncate_error, so the bytes after them are dropped in silence.  A  *)
(* hash is the scheme and the digest of the key (the random salt, which    *)
(* verify reads back from the hash, is left out).                          *)
(***************************************************************************)
\* bcrypt's truncate_size
TruncateSize == 72

Truncada(s) == IF Len(s) <= TruncateSize THEN s ELSE SubSeq(s, 1, TruncateSize)

\* The digest is taken to be free of collisions: two hashes are equal only
\* for equal keys.
hashear_contrasena(p) == <<"bcrypt", Truncada(Bytes(p))>>

verificar_contrasena(p, h) == h = <<"bcrypt", Truncada(Bytes(p))>>

(***************************************************************************)
(* JWT codec.  A token is its payload and whether its signature verifies   *)
(* under SECRET_KEY.                                                       *)
(***************************************************************************)
NoToken == [sub |-> Null, rol |-> RolNull, exp |-> 0, firma |-> "none"]

\* timegm(d.utctimetuple()): a datetime as whole seconds, fraction dropped.
Timegm(t) == t \div TicksPerSecond

DefaultTtl == ACCESS_TOKEN_EXPIRE_MINUTES * SecondsPerMinute * TicksPerSecond

\* crear_access_token(data, expires_delta): ttl is a timedelta in ticks, or
\* Unset when no expires_delta is passed.  "if expires_delta:" takes a zero
\* timedelta for an absent one.
ExpireDe(t, ttl) == IF ttl # Unset /\ ttl # 0 THEN t + ttl ELSE t + DefaultTtl

crear_access_token(sub, rol, ttl, t) ==
    [sub |-> sub, rol |-> rol, exp |-> Timegm(ExpireDe(t, ttl)), firma |-> "ok"]

\* Faulty variants: decoding with verify_exp off, and the comparison
\* of exp turned around.
ExpiradoNunca(tok, t) == FALSE

ExpiradoInvertido(tok, t) == tok.exp > Timegm(t)

\* jose's exp validation: ExpiredSignatureError when exp < now (in seconds).
Expirado(tok, t) == tok.exp < Timegm(t)

Rechazo(status, detail, hdr) == [ok |-> FALSE, status |-> status, detail |-> detail, hdr |-> hdr]

CredentialsException == Rechazo(401, "No se pudo validar las credenciales", "Bearer")

\* verificar_token: jwt.decode (signature, then exp), then the sub claim.
verificar_token(tok, t) ==
    IF tok.firma # "ok" THEN CredentialsException
    ELSE IF Expirado(tok, t) THEN CredentialsException
    ELSE IF tok.sub = Null THEN CredentialsException
    ELSE [ok |-> TRUE, correo |-> tok.sub, rol |-> tok.rol]

(***************************************************************************)
(* Authentication and authorization dependencies.                          *)
(***************************************************************************)
\* select(Usuario).where(Usuario.correo == correo) ... .first()
PorCorreo(correo) == {u \in usuarios : u.correo = correo}

Primero(S) == CHOOSE u \in S : \A v \in S : u.id <= v.id

\* Faulty variants: an inactive user answered with the credentials
\* exception, and an unknown subject answered with a 404 of its own.
obtener_usuario_actual_inactivo_401(tok) ==
    IF tok.firma = "none" THEN Rechazo(401, "Not authenticated", "Bearer")
    ELSE LET td == verificar_token(tok, now) IN
         IF ~td.ok THEN td
         ELSE IF PorCorreo(td.correo) = {} THEN CredentialsException
         ELSE LET u == Primero(PorCorreo(td.correo)) IN
              IF ~u.activo THEN CredentialsException
              ELSE [ok |-> TRUE, usuario |-> u]

obtener_usuario_actual_404(tok) ==
    IF tok.firma = "none" THEN Rechazo(401, "Not authenticated", "Bearer")
    ELSE LET td == verificar_token(tok, now) IN
         IF ~td.ok THEN td
         ELSE IF PorCorreo(td.correo) = {} THEN Rechazo(404, "Usuario no encontrado", "")
         ELSE LET u == Primero(PorCorreo(td.correo)) IN
              IF ~u.activo THEN Rechazo(403, "Usuario inactivo", "")
              ELSE [ok |-> TRUE, usuario |-> u]

\* oauth2_scheme followed by obtener_usuario_actual.
obtener_usuario_actual(tok) ==
    IF tok.firma = "none" THEN Rechazo(401, "Not authenticated", "Bearer")
    ELSE LET td == verificar_token(tok, now) IN
         IF ~td.ok THEN td
         ELSE IF PorCorreo(td.correo) = {} THEN CredentialsException
         ELSE LET u == Primero(PorCorreo(td.correo)) IN
              IF ~u.activo THEN Rechazo(403, "Usuario inactivo", "")
              ELSE [ok |-> TRUE, usuario |-> u]

\* Faulty variant: the role is read from the token's rol claim, not from the
\* stored user.
verificar_administrador_por_token(tok) ==
    LET a == obtener_usuario_actual(tok) IN
    IF ~a.ok THEN a
    ELSE IF tok.rol # ADMINISTRADOR
         THEN Rechazo(403, "No tiene permisos de administrador", "")
         ELSE a

\* Faulty variant: the role is not looked at.
verificar_administrador_sin_rol(tok) == obtener_usuario_actual(tok)

verificar_administrador(tok) ==
    LET a == obtener_usuario_actual(tok) IN
    IF ~a.ok THEN a
    ELSE IF a.usuario.rol # ADMINISTRADOR
         THEN Rechazo(403, "No tiene permisos de administrador", "")
         ELSE a

\* Faulty variant: only an administrator may act, the owner may not.
NoEsAdmin(u, id) == u.rol # ADMINISTRADOR

\* usuario_actual.rol != ADMINISTRADOR and usuario_actual.id != id
NoEsPropioNiAdmin(u, id) == u.rol # ADMINISTRADOR /\ u.id # id

(***************************************************************************)
(* Requests and responses.  resp is the outcome of the last step: the      *)
(* response it sent (fase "inicio" from a handler's first step, "commit"   *)
(* from its commit), or the request it let through to its commit (fase     *)
(* "pendiente"); Nada when the step handled no request.  pend[w] is the    *)
(* request worker w has read and checked and not yet committed, with the   *)
(* caller it was authenticated as.                                         *)
(***************************************************************************)
Respuesta(op, status, detail, hdr, tok, arg, cuerpo) ==
    [op |-> op, fase |-> "inicio", status |-> status, detail |-> detail, hdr |-> hdr,
     tok |-> tok, arg |-> arg, cuerpo |-> cuerpo]

\* The response of a request that reached its session.commit() (the token
\* it presented is not kept with it).
Diferida(op, status, detail, hdr, tok, arg, cuerpo) ==
    [Respuesta(op, status, detail, hdr, tok, arg, cuerpo) EXCEPT !.fase = "commit"]

Nada == Respuesta("nada", 0, "", "", NoToken, <<>>, Null)

Idle == [op |-> "idle"]

\* An unhandled exception: the generic 500 of the framework.
ErrorInterno == Rechazo(500, "Internal Server Error", "")

\* A request body the schema refuses (RequestValidationError).
ErrorValidacion == Rechazo(422, "Unprocessable Entity", "")

\* The request ends in its first step with an HTTPException: nothing is
\* written (the session is closed without a commit).
Falla(op, e, tok, arg) ==
    /\ resp' = Respuesta(op, e.status, e.detail, e.hdr, tok, arg, Null)
    /\ UNCHANGED <<usuarios, canciones, favoritos, tokens, emitidos, now, pend>>

\* The request passed its checks; its session.commit() is a later step.
Aceptada(op, tok, arg) ==
    [Respuesta(op, 0, "", "", tok, arg, Null) EXCEPT !.fase = "pendiente"]

\* usuario_actual, which the handler holds until it returns: the id and the
\* role of the caller (Null for an endpoint without authentication).
Quien(tok) ==
    IF obtener_usuario_actual(tok).ok
    THEN [id |-> obtener_usuario_actual(tok).usuario.id,
          rol |-> obtener_usuario_actual(tok).usuario.rol]
    ELSE Null

Encola(w, tok, p) ==
    /\ pend' = [pend EXCEPT ![w] = p @@ [llamante |-> Quien(tok)]]
    /\ resp' = Aceptada(p.op, tok, p.arg)
    /\ UNCHANGED <<usuarios, canciones, favoritos, tokens, emitidos, now>>

\* A token whose signature does not verify (an administrator's payload signed
\* with another key), and a signed token without a sub claim.
TokenFalso == [sub |-> 1, rol |-> ADMINISTRADOR, exp |-> Timegm(MaxNow) + 1, firma |-> "bad"]

TokenSinSub == [sub |-> Null, rol |-> USUARIO, exp |-> Timegm(MaxNow) + 1, firma |-> "ok"]

\* The tokens a client can present: the issued ones, none, and the two above.
Presentables == tokens \cup {NoToken, TokenFalso, TokenSinSub}

\* Record of an issuance (not program state): who the token was issued to,
\* when, and with which time-to-live.
Emision(tok, uid, iat, ttl) == [tok |-> tok, uid |-> uid, iat |-> iat, ttl |-> ttl]

Pendientes(ops) == Cardinality({w \in Workers : pend[w].op \in ops})

(***************************************************************************)
(* The store's own checks at write time.                                   *)
(***************************************************************************)
\* Faulty variant: the correo column declared without unique=True.
CorreoSinUnique(correo, id) == FALSE

\* usuarios.correo is UNIQUE: a row with this correo other than row id.
CorreoDuplicado(correo, id) == \E u \in usuarios : u.correo = correo /\ u.id # id

\* favoritos has no UNIQUE constraint on (id_usuario, id_cancion), and
\* SQLite does not enforce its foreign keys (no PRAGMA foreign_keys).
FavoritoRechazado(id_usuario, id_cancion) == FALSE

\* session.delete(parent): the relationship has no delete cascade, so the
\* unit of work sets the children's foreign key to NULL, which the NOT NULL
\* column rejects.
HijosDeUsuario(id) == {f \in favoritos : f.id_usuario = id}

HijosDeCancion(id) == {f \in favoritos : f.id_cancion = id}

(***************************************************************************)
(* Response schemas.                                                       *)
(***************************************************************************)
\* UsuarioRead, the response_model of every endpoint that returns a user:
\* nombre, correo, id, rol, activo, fecha_registro.
UsuarioRead(u) ==
    [id |-> u.id, nombre |-> u.nombre, correo |-> u.correo, rol |-> u.rol, activo |-> u.activo,
     fecha_registro |-> u.fecha_registro]

(***************************************************************************)
(* Router auth.                                                            *)
(***************************************************************************)
\* Faulty variant: the password is not verified.
autenticar_usuario_sin_verificar(correo, contrasena) ==
    IF PorCorreo(correo) = {} THEN Null
    ELSE Primero(PorCorreo(correo)).id

\* autenticar_usuario(correo, contrasena, session): the user, or Null.
autenticar_usuario(correo, contrasena) ==
    IF PorCorreo(correo) = {} THEN Null
    ELSE LET u == Primero(PorCorreo(correo)) IN
         IF ~verificar_contrasena(contrasena, u.contrasena_hash) THEN Null
         ELSE u.id

\* Faulty variant: the handler skips its select for the correo.
CorreoNoConsultado(correo) == FALSE

\* The handlers' own check: select(Usuario).where(correo == ..).first() finds
\* a user.
CorreoRegistrado(correo) == PorCorreo(correo) # {}

LoginCuerpo(op, correo, contrasena) ==
    LET uid == autenticar_usuario(correo, contrasena)
        arg == [correo |-> correo, contrasena |-> contrasena]
    IN  IF uid = Null
        THEN Falla(op, Rechazo(401, "Credenciales incorrectas", "Bearer"), NoToken, arg)
        ELSE LET u == Fila(usuarios, uid) IN
             IF ~u.activo
             THEN Falla(op, Rechazo(403, "Usuario inactivo. Contacte al administrador.", ""),
                        NoToken, arg)
             ELSE LET tok == crear_access_token(u.correo, u.rol, DefaultTtl, now) IN
                  /\ Cardinality(emitidos \cup {Emision(tok, u.id, now, DefaultTtl)}) <= MaxTokens
                  /\ tokens' = tokens \cup {tok}
                  /\ emitidos' = emitidos \cup {Emision(tok, u.id, now, DefaultTtl)}
                  /\ resp' = Respuesta(op, 200, "", "", NoToken, arg,
                                       [access_token |-> tok, rol |-> u.rol])
                  /\ UNCHANGED <<usuarios, canciones, favoritos, now, pend>>

login(correo, contrasena) == LoginCuerpo("login", correo, contrasena)

\* LoginRequest: contrasena min_length=6.
LoginRequestValida(contrasena) == Largo(contrasena) >= 6

login_json(correo, contrasena) ==
    IF ~LoginRequestValida(contrasena)
    THEN Falla("login_json", ErrorValidacion, NoToken,
               [correo |-> correo, contrasena |-> contrasena])
    ELSE LoginCuerpo("login_json", correo, contrasena)

\* Faulty variant: rol and activo are taken from the body when it has them.
registrar_usuario_con_rol(w, d) ==
    /\ pend[w] = Idle
    /\ NextId(usuarios) + Pendientes({"registrar_usuario", "crear_usuario"}) <= MaxUsuarioId
    /\ IF CorreoRegistrado(d.correo)
       THEN Falla("registrar_usuario", Rechazo(400, "El correo ya esta registrado", ""),
                  NoToken, d)
       ELSE Encola(w, NoToken, [op |-> "registrar_usuario", arg |-> d,
                       fila |-> [nombre |-> d.nombre, correo |-> d.correo,
                                 contrasena_hash |-> hashear_contrasena(d.contrasena),
                                 rol |-> IF "rol" \in DOMAIN d /\ d.rol # "ausente"
                                         THEN d.rol ELSE USUARIO,
                                 activo |-> IF "activo" \in DOMAIN d /\ d.activo # "ausente"
                                            THEN d.activo = "true" ELSE TRUE,
                                 fecha_registro |-> now]])

registrar_usuario(w, d) ==
    /\ pend[w] = Idle
    /\ NextId(usuarios) + Pendientes({"registrar_usuario", "crear_usuario"}) <= MaxUsuarioId
    /\ IF CorreoRegistrado(d.correo)
       THEN Falla("registrar_usuario", Rechazo(400, "El correo ya esta registrado", ""),
                  NoToken, d)
       ELSE Encola(w, NoToken, [op |-> "registrar_usuario", arg |-> d,
                       fila |-> [nombre |-> d.nombre, correo |-> d.correo,
                                 contrasena_hash |-> hashear_contrasena(d.contrasena),
                                 rol |-> USUARIO, activo |-> TRUE,
                                 fecha_registro |-> now]])

\* session.add(usuario); session.commit() of registrar_usuario and crear_usuario.
insertar_usuario_commit(w) ==
    /\ pend[w].op \in {"registrar_usuario", "crear_usuario"}
    /\ pend' = [pend EXCEPT ![w] = Idle]
    /\ LET p == pend[w]
           id == NextId(usuarios)
           nuevo == [id |-> id, nombre |-> p.fila.nombre, correo |-> p.fila.correo,
                     contrasena_hash |-> p.fila.contrasena_hash,
                     rol |-> p.fila.rol, activo |-> p.fila.activo,
                     fecha_registro |-> p.fila.fecha_registro]
       IN  IF CorreoDuplicado(p.fila.correo, id)
           THEN /\ resp' = Diferida(p.op, 500, ErrorInterno.detail, "", NoToken, p.arg, Null)
                /\ UNCHANGED usuarios
           ELSE /\ usuarios' = usuarios \cup {nuevo}
                /\ resp' = Diferida(p.op, 201, "", "", NoToken, p.arg, UsuarioRead(nuevo))
    /\ UNCHANGED <<canciones, favoritos, tokens, emitidos, now>>

obtener_perfil(tok) ==
    LET a == obtener_usuario_actual(tok) IN
    IF ~a.ok THEN Falla("obtener_perfil", a, tok, <<>>)
    ELSE /\ resp' = Respuesta("obtener_perfil", 200, "", "", tok, <<>>,
                              UsuarioRead(a.usuario))
         /\ UNCHANGED <<usuarios, canciones, favoritos, tokens, emitidos, now, pend>>

verificar_token_endpoint(tok) ==
    LET a == obtener_usuario_actual(tok) IN
    IF ~a.ok THEN Falla("verificar_token_endpoint", a, tok, <<>>)
    ELSE /\ resp' = Respuesta("verificar_token_endpoint", 200, "", "", tok, <<>>,
                              [valido |-> TRUE, usuario_id |-> a.usuario.id,
                               correo |-> a.usuario.correo, rol |-> a.usuario.rol,
                               activo |-> a.usuario.activo])
         /\ UNCHANGED <<usuarios, canciones, favoritos, tokens, emitidos, now, pend>>

(***************************************************************************)
(* Router usuarios.                                                        *)
(***************************************************************************)
SinCambio == UNCHANGED <<usuarios, canciones, favoritos, tokens, emitidos, now, pend>>

listar_usuarios(tok) ==
    LET a == verificar_administrador(tok) IN
    IF ~a.ok THEN Falla("listar_usuarios", a, tok, <<>>)
    ELSE /\ resp' = Respuesta("listar_usuarios", 200, "", "", tok, <<>>,
                              {UsuarioRead(u) : u \in usuarios})
         /\ SinCambio

\* Faulty variant: the role is stored without being validated.
crear_usuario_sin_validar_rol(w, tok, d) ==
    /\ pend[w] = Idle
    /\ NextId(usuarios) + Pendientes({"registrar_usuario", "crear_usuario"}) <= MaxUsuarioId
    /\ LET a == verificar_administrador(tok) IN
       IF ~a.ok THEN Falla("crear_usuario", a, tok, d)
       ELSE IF CorreoRegistrado(d.correo)
       THEN Falla("crear_usuario", Rechazo(400, "El correo ya esta registrado", ""), tok, d)
       ELSE Encola(w, tok, [op |-> "crear_usuario", arg |-> d,
                       fila |-> [nombre |-> d.nombre, correo |-> d.correo,
                                 contrasena_hash |-> hashear_contrasena(d.contrasena),
                                 rol |-> d.rol, activo |-> TRUE,
                                 fecha_registro |-> now]])

crear_usuario(w, tok, d) ==
    /\ pend[w] = Idle
    /\ NextId(usuarios) + Pendientes({"registrar_usuario", "crear_usuario"}) <= MaxUsuarioId
    /\ LET a == verificar_administrador(tok) IN
       IF ~a.ok THEN Falla("crear_usuario", a, tok, d)
       ELSE IF CorreoRegistrado(d.correo)
       THEN Falla("crear_usuario", Rechazo(400, "El correo ya esta registrado", ""), tok, d)
       ELSE IF d.rol \notin {USUARIO, ADMINISTRADOR}
       THEN Falla("crear_usuario", Rechazo(400, "Rol invalido", ""), tok, d)
       ELSE Encola(w, tok, [op |-> "crear_usuario", arg |-> d,
                       fila |-> [nombre |-> d.nombre, correo |-> d.correo,
                                 contrasena_hash |-> hashear_contrasena(d.contrasena),
                                 rol |-> d.rol, activo |-> TRUE,
                                 fecha_registro |-> now]])

obtener_usuario(tok, id) ==
    LET a == verificar_administrador(tok) IN
    IF ~a.ok THEN Falla("obtener_usuario", a, tok, id)
    ELSE IF ~Existe(usuarios, id)
    THEN Falla("obtener_usuario", Rechazo(404, "Usuario no encontrado", ""), tok, id)
    ELSE /\ resp' = Respuesta("obtener_usuario", 200, "", "", tok, id,
                              UsuarioRead(Fila(usuarios, id)))
         /\ SinCambio

\* usuario_update.correo and usuario_update.correo != usuario.correo, then
\* the select for a user holding that correo.
CorreoEnUso(body, usuario) ==
    /\ body.correo \notin {Null, Unset}
    /\ body.correo # usuario.correo
    /\ PorCorreo(body.correo) # {}

\* UsuarioUpdate: contrasena Optional with min_length=6 (None is accepted).
UsuarioUpdateValida(body) ==
    body.contrasena \notin {Null, Unset} => Largo(body.contrasena) >= 6

actualizar_usuario(w, tok, id, body) ==
    /\ pend[w] = Idle
    /\ LET a == obtener_usuario_actual(tok)
           arg == [id |-> id, body |-> body]
       IN  IF ~a.ok THEN Falla("actualizar_usuario", a, tok, arg)
           ELSE IF ~UsuarioUpdateValida(body)
           THEN Falla("actualizar_usuario", ErrorValidacion, tok, arg)
           ELSE IF ~Existe(usuarios, id)
           THEN Falla("actualizar_usuario", Rechazo(404, "Usuario no encontrado", ""), tok, arg)
           ELSE IF NoEsPropioNiAdmin(a.usuario, id)
           THEN Falla("actualizar_usuario",
                      Rechazo(403, "No tiene permisos para actualizar este usuario", ""),
                      tok, arg)
           ELSE IF CorreoEnUso(body, Fila(usuarios, id))
           THEN Falla("actualizar_usuario", Rechazo(400, "El correo ya esta en uso", ""),
                      tok, arg)
           \* hashear_contrasena(None) raises TypeError
           ELSE IF body.contrasena = Null
           THEN Falla("actualizar_usuario", ErrorInterno, tok, arg)
           ELSE Encola(w, tok, [op |-> "actualizar_usuario", arg |-> arg,
                           cargado |-> Fila(usuarios, id)])

\* The attributes the handler has set on the loaded object, as the flush
\* sees them: a column is written only if its value differs from the one
\* loaded (a new hash always differs, bcrypt salts at random).
NombreEscrito(p) == p.arg.body.nombre # Unset /\ p.arg.body.nombre # p.cargado.nombre

CorreoEscrito(p) == p.arg.body.correo # Unset /\ p.arg.body.correo # p.cargado.correo

HashEscrito(p) == p.arg.body.contrasena # Unset

\* Faulty variant: model_dump() without exclude_unset, every field of the
\* body is set and an absent one is None.
FilaActualizadaSinExclude(p, actual) ==
    [actual EXCEPT
        !.nombre = IF p.arg.body.nombre # Unset THEN p.arg.body.nombre ELSE Null,
        !.correo = IF p.arg.body.correo # Unset THEN p.arg.body.correo ELSE Null,
        !.contrasena_hash = IF HashEscrito(p)
                            THEN hashear_contrasena(p.arg.body.contrasena) ELSE @]

\* Faulty variant: the schema declares rol, activo, id and fecha_registro,
\* and the setattr loop writes them with the rest.
FilaActualizadaConExtras(p, actual) ==
    [actual EXCEPT
        !.nombre = IF NombreEscrito(p) THEN p.arg.body.nombre ELSE @,
        !.correo = IF CorreoEscrito(p) THEN p.arg.body.correo ELSE @,
        !.contrasena_hash = IF HashEscrito(p)
                            THEN hashear_contrasena(p.arg.body.contrasena) ELSE @,
        !.rol = IF p.arg.body.rol # "ausente" THEN p.arg.body.rol ELSE @,
        !.activo = IF p.arg.body.activo # "ausente" THEN p.arg.body.activo = "true" ELSE @,
        !.id = IF p.arg.body.id # Unset THEN p.arg.body.id ELSE @,
        !.fecha_registro = IF p.arg.body.fecha_registro # Unset
                           THEN p.arg.body.fecha_registro ELSE @]

FilaActualizada(p, actual) ==
    [actual EXCEPT
        !.nombre = IF NombreEscrito(p) THEN p.arg.body.nombre ELSE @,
        !.correo = IF CorreoEscrito(p) THEN p.arg.body.correo ELSE @,
        !.contrasena_hash = IF HashEscrito(p)
                            THEN hashear_contrasena(p.arg.body.contrasena) ELSE @]

\* The UPDATE fails: the row is gone (StaleDataError, or the refresh finds
\* nothing), a NOT NULL column is set to NULL, or the correo is taken.
UpdateUsuarioFalla(p) ==
    \/ ~Existe(usuarios, p.arg.id)
    \/ NombreEscrito(p) /\ p.arg.body.nombre = Null
    \/ CorreoEscrito(p) /\ p.arg.body.correo = Null
    \/ CorreoEscrito(p) /\ CorreoDuplicado(p.arg.body.correo, p.arg.id)

actualizar_usuario_commit(w) ==
    /\ pend[w].op = "actualizar_usuario"
    /\ pend' = [pend EXCEPT ![w] = Idle]
    /\ LET p == pend[w] IN
       IF UpdateUsuarioFalla(p)
       THEN /\ resp' = Diferida(p.op, 500, ErrorInterno.detail, "", NoToken, p.arg, Null)
            /\ UNCHANGED usuarios
       ELSE LET actual == Fila(usuarios, p.arg.id) IN
            /\ usuarios' = (usuarios \ {actual}) \cup {FilaActualizada(p, actual)}
            /\ resp' = Diferida(p.op, 200, "", "", NoToken, p.arg,
                                 UsuarioRead(FilaActualizada(p, actual)))
    /\ UNCHANGED <<canciones, favoritos, tokens, emitidos, now>>

eliminar_usuario(w, tok, id) ==
    /\ pend[w] = Idle
    /\ LET a == verificar_administrador(tok) IN
       IF ~a.ok THEN Falla("eliminar_usuario", a, tok, id)
       ELSE IF ~Existe(usuarios, id)
       THEN Falla("eliminar_usuario", Rechazo(404, "Usuario no encontrado", ""), tok, id)
       ELSE Encola(w, tok, [op |-> "eliminar_usuario", arg |-> id])

eliminar_usuario_commit(w) ==
    /\ pend[w].op = "eliminar_usuario"
    /\ pend' = [pend EXCEPT ![w] = Idle]
    /\ LET p == pend[w] IN
       IF HijosDeUsuario(p.arg) # {}
       THEN /\ resp' = Diferida(p.op, 500, ErrorInterno.detail, "", NoToken, p.arg, Null)
            /\ UNCHANGED usuarios
       ELSE /\ usuarios' = {u \in usuarios : u.id # p.arg}
            /\ resp' = Diferida(p.op, 204, "", "", NoToken, p.arg, Null)
    /\ UNCHANGED <<canciones, favoritos, tokens, emitidos, now>>

listar_favoritos_usuario(tok, id) ==
    LET a == obtener_usuario_actual(tok) IN
    IF ~a.ok THEN Falla("listar_favoritos_usuario", a, tok, id)
    ELSE IF NoEsPropioNiAdmin(a.usuario, id)
    THEN Falla("listar_favoritos_usuario",
               Rechazo(403, "No tiene permisos para ver los favoritos de este usuario", ""),
               tok, id)
    ELSE IF ~Existe(usuarios, id)
    THEN Falla("listar_favoritos_usuario", Rechazo(404, "Usuario no encontrado", ""), tok, id)
    ELSE /\ resp' = Respuesta("listar_favoritos_usuario", 200, "", "", tok, id,
                              {c.id : c \in {c \in canciones :
                                   \E f \in favoritos : f.id_cancion = c.id /\ f.id_usuario = id}})
         /\ SinCambio

\* select(Favorito).where(id_usuario == .., id_cancion == ..).first()
FavoritosDe(id_usuario, id_cancion) ==
    {f \in favoritos : f.id_usuario = id_usuario /\ f.id_cancion = id_cancion}

\* Faulty variant: the handler skips its select for the pair.
FavoritoNoConsultado(id_usuario, id_cancion) == FALSE

\* favorito_existente: the select finds a row for the pair.
FavoritoExistente(id_usuario, id_cancion) == FavoritosDe(id_usuario, id_cancion) # {}

\* The checks shared by marcar_favorito and crear_favorito, in the handlers'
\* order: ownership, user exists, song exists, duplicate.
ChequeoFavorito(op, actor, id_usuario, id_cancion) ==
    IF NoEsPropioNiAdmin(actor, id_usuario)
    THEN Rechazo(403, IF op = "crear_favorito"
                      THEN "No tiene permisos para marcar favoritos para otro usuario"
                      ELSE "No tiene permisos para marcar favoritos para este usuario", "")
    ELSE IF ~Existe(usuarios, id_usuario) THEN Rechazo(404, "Usuario no encontrado", "")
    ELSE IF ~Existe(canciones, id_cancion) THEN Rechazo(404, "Cancion no encontrada", "")
    ELSE IF FavoritoExistente(id_usuario, id_cancion)
    THEN Rechazo(400, IF op = "crear_favorito"
                      THEN "Esta cancion ya esta marcada como favorita para este usuario"
                      ELSE "Esta cancion ya esta marcada como favorita", "")
    ELSE [ok |-> TRUE]

CupoFavoritos ==
    NextId(favoritos) + Pendientes({"marcar_favorito", "crear_favorito"}) <= MaxFavoritoId

marcar_favorito(w, tok, id_usuario, id_cancion) ==
    /\ pend[w] = Idle
    /\ CupoFavoritos
    /\ LET a == obtener_usuario_actual(tok)
           arg == [id_usuario |-> id_usuario, id_cancion |-> id_cancion]
       IN  IF ~a.ok THEN Falla("marcar_favorito", a, tok, arg)
           ELSE LET c == ChequeoFavorito("marcar_favorito", a.usuario, id_usuario, id_cancion) IN
                IF ~c.ok THEN Falla("marcar_favorito", c, tok, arg)
                ELSE Encola(w, tok, [op |-> "marcar_favorito", arg |-> arg])

\* session.add(favorito); session.commit() of marcar_favorito and crear_favorito.
insertar_favorito_commit(w) ==
    /\ pend[w].op \in {"marcar_favorito", "crear_favorito"}
    /\ pend' = [pend EXCEPT ![w] = Idle]
    /\ LET p == pend[w]
           id == NextId(favoritos)
       IN  IF FavoritoRechazado(p.arg.id_usuario, p.arg.id_cancion)
           THEN /\ resp' = Diferida(p.op, 500, ErrorInterno.detail, "", NoToken, p.arg, Null)
                /\ UNCHANGED favoritos
           ELSE /\ favoritos' = favoritos \cup {[id |-> id, id_usuario |-> p.arg.id_usuario,
                                                 id_cancion |-> p.arg.id_cancion]}
                /\ resp' = Diferida(p.op, 201, "", "", NoToken, p.arg, id)
    /\ UNCHANGED <<usuarios, canciones, tokens, emitidos, now>>

eliminar_favorito_especifico(w, tok, id_usuario, id_cancion) ==
    /\ pend[w] = Idle
    /\ LET a == obtener_usuario_actual(tok)
           arg == [id_usuario |-> id_usuario, id_cancion |-> id_cancion]
       IN  IF ~a.ok THEN Falla("eliminar_favorito_especifico", a, tok, arg)
           ELSE IF NoEsPropioNiAdmin(a.usuario, id_usuario)
           THEN Falla("eliminar_favorito_especifico",
                      Rechazo(403, "No tiene permisos para eliminar favoritos de este usuario", ""),
                      tok, arg)
           ELSE IF FavoritosDe(id_usuario, id_cancion) = {}
           THEN Falla("eliminar_favorito_especifico",
                      Rechazo(404, "Favorito no encontrado", ""), tok, arg)
           ELSE Encola(w, tok, [op |-> "eliminar_favorito_especifico", arg |-> arg,
                           id |-> Primero(FavoritosDe(id_usuario, id_cancion)).id])

\* session.delete(favorito); session.commit() of both delete-favorite handlers.
eliminar_favorito_commit(w) ==
    /\ pend[w].op \in {"eliminar_favorito_especifico", "eliminar_favorito"}
    /\ pend' = [pend EXCEPT ![w] = Idle]
    /\ favoritos' = {f \in favoritos : f.id # pend[w].id}
    /\ resp' = Diferida(pend[w].op, 204, "", "", NoToken, pend[w].arg, Null)
    /\ UNCHANGED <<usuarios, canciones, tokens, emitidos, now>>

(***************************************************************************)
(* Router canciones.                                                       *)
(***************************************************************************)
\* datetime.now().year
CurrentYear == 2026

\* CancionBase: duracion gt=0 and validar_duracion, anio ge=1900, le=2100 and
\* validar_anio.
CancionCreateValida(d) ==
    /\ d.titulo # Null
    /\ d.duracion # Null /\ d.duracion > 0 /\ d.duracion <= 7200
    /\ d.anio # Null => (d.anio >= 1900 /\ d.anio <= 2100 /\ d.anio <= CurrentYear + 1)

\* CancionUpdate: every field Optional; duracion gt=0, anio ge=1900, le=2100.
CancionUpdateValida(body) ==
    /\ body.duracion \notin {Null, Unset} => body.duracion > 0
    /\ body.anio \notin {Null, Unset} => (body.anio >= 1900 /\ body.anio <= 2100)

listar_canciones(tok) ==
    LET a == obtener_usuario_actual(tok) IN
    IF ~a.ok THEN Falla("listar_canciones", a, tok, <<>>)
    ELSE /\ resp' = Respuesta("listar_canciones", 200, "", "", tok, <<>>,
                              {c.id : c \in canciones})
         /\ SinCambio

crear_cancion(tok, d) ==
    /\ NextId(canciones) <= MaxCancionId
    /\ LET a == obtener_usuario_actual(tok) IN
       IF ~a.ok THEN Falla("crear_cancion", a, tok, d)
       ELSE IF ~CancionCreateValida(d) THEN Falla("crear_cancion", ErrorValidacion, tok, d)
       ELSE LET id == NextId(canciones) IN
            /\ canciones' = canciones \cup
                 {[id |-> id, titulo |-> d.titulo, duracion |-> d.duracion, anio |-> d.anio]}
            /\ resp' = Respuesta("crear_cancion", 201, "", "", tok, d, id)
            /\ UNCHANGED <<usuarios, favoritos, tokens, emitidos, now, pend>>

\* The titulo filter of buscar_canciones (a title matches itself).
buscar_canciones(tok, titulo) ==
    LET a == obtener_usuario_actual(tok) IN
    IF ~a.ok THEN Falla("buscar_canciones", a, tok, titulo)
    ELSE /\ resp' = Respuesta("buscar_canciones", 200, "", "", tok, titulo,
                              {c.id : c \in {c \in canciones :
                                                titulo = Null \/ c.titulo = titulo}})
         /\ SinCambio

obtener_cancion(tok, id) ==
    LET a == obtener_usuario_actual(tok) IN
    IF ~a.ok THEN Falla("obtener_cancion", a, tok, id)
    ELSE IF ~Existe(canciones, id)
    THEN Falla("obtener_cancion", Rechazo(404, "Cancion no encontrada", ""), tok, id)
    ELSE /\ resp' = Respuesta("obtener_cancion", 200, "", "", tok, id, id)
         /\ SinCambio

actualizar_cancion(w, tok, id, body) ==
    /\ pend[w] = Idle
    /\ LET a == obtener_usuario_actual(tok)
           arg == [id |-> id, body |-> body]
       IN  IF ~a.ok THEN Falla("actualizar_cancion", a, tok, arg)
           ELSE IF ~CancionUpdateValida(body)
           THEN Falla("actualizar_cancion", ErrorValidacion, tok, arg)
           ELSE IF ~Existe(canciones, id)
           THEN Falla("actualizar_cancion", Rechazo(404, "Cancion no encontrada", ""), tok, arg)
           ELSE Encola(w, tok, [op |-> "actualizar_cancion", arg |-> arg,
                           cargado |-> Fila(canciones, id)])

CampoEscrito(p, campo) ==
    p.arg.body[campo] # Unset /\ p.arg.body[campo] # p.cargado[campo]

\* The UPDATE fails: the row is gone, or titulo or duracion (NOT NULL) is
\* set to NULL.
UpdateCancionFalla(p) ==
    \/ ~Existe(canciones, p.arg.id)
    \/ CampoEscrito(p, "titulo") /\ p.arg.body.titulo = Null
    \/ CampoEscrito(p, "duracion") /\ p.arg.body.duracion = Null

actualizar_cancion_commit(w) ==
    /\ pend[w].op = "actualizar_cancion"
    /\ pend' = [pend EXCEPT ![w] = Idle]
    /\ LET p == pend[w] IN
       IF UpdateCancionFalla(p)
       THEN /\ resp' = Diferida(p.op, 500, ErrorInterno.detail, "", NoToken, p.arg, Null)
            /\ UNCHANGED canciones
       ELSE LET actual == Fila(canciones, p.arg.id)
                nueva == [actual EXCEPT
                    !.titulo = IF CampoEscrito(p, "titulo") THEN p.arg.body.titulo ELSE @,
                    !.duracion = IF CampoEscrito(p, "duracion") THEN p.arg.body.duracion ELSE @,
                    !.anio = IF CampoEscrito(p, "anio") THEN p.arg.body.anio ELSE @]
            IN  /\ canciones' = (canciones \ {actual}) \cup {nueva}
                /\ resp' = Diferida(p.op, 200, "", "", NoToken, p.arg, p.arg.id)
    /\ UNCHANGED <<usuarios, favoritos, tokens, emitidos, now>>

eliminar_cancion(w, tok, id) ==
    /\ pend[w] = Idle
    /\ LET a == obtener_usuario_actual(tok) IN
       IF ~a.ok THEN Falla("eliminar_cancion", a, tok, id)
       ELSE IF ~Existe(canciones, id)
       THEN Falla("eliminar_cancion", Rechazo(404, "Cancion no encontrada", ""), tok, id)
       ELSE Encola(w, tok, [op |-> "eliminar_cancion", arg |-> id])

eliminar_cancion_commit(w) ==
    /\ pend[w].op = "eliminar_cancion"
    /\ pend' = [pend EXCEPT ![w] = Idle]
    /\ LET p == pend[w] IN
       IF HijosDeCancion(p.arg) # {}
       THEN /\ resp' = Diferida(p.op, 500, ErrorInterno.detail, "", NoToken, p.arg, Null)
            /\ UNCHANGED canciones
       ELSE /\ canciones' = {c \in canciones : c.id # p.arg}
            /\ resp' = Diferida(p.op, 204, "", "", NoToken, p.arg, Null)
    /\ UNCHANGED <<usuarios, favoritos, tokens, emitidos, now>>

(***************************************************************************)
(* Router favoritos.                                                       *)
(***************************************************************************)
\* offset(skip).limit(limit) over the rows in id order.  SQLite takes a
\* negative OFFSET for zero and a negative LIMIT for no limit.
Pagina(filas, skip, limit) ==
    {f \in filas :
        LET antes == Cardinality({g \in filas : g.id < f.id})
            desde == IF skip < 0 THEN 0 ELSE skip
        IN  antes >= desde /\ (limit < 0 \/ antes < desde + limit)}

\* Faulty variant: the rows are not filtered by the caller.
VisiblesSinFiltro(u) == favoritos

\* The rows the statement selects from: a regular user's own, all of them
\* for an administrator.
Visibles(u) ==
    IF u.rol # ADMINISTRADOR
    THEN {f \in favoritos : f.id_usuario = u.id}
    ELSE favoritos

listar_favoritos(tok, skip, limit) ==
    LET a == obtener_usuario_actual(tok)
        arg == [skip |-> skip, limit |-> limit]
    IN  IF ~a.ok THEN Falla("listar_favoritos", a, tok, arg)
        ELSE /\ resp' = Respuesta("listar_favoritos", 200, "", "", tok, arg,
                                  Pagina(Visibles(a.usuario), skip, limit))
             /\ SinCambio

\* Faulty variant: the row is added and committed before the duplicate
\* check, which then answers 400.
crear_favorito_commit_antes(w, tok, d) ==
    /\ pend[w] = Idle
    /\ CupoFavoritos
    /\ LET a == obtener_usuario_actual(tok) IN
       IF ~a.ok THEN Falla("crear_favorito", a, tok, d)
       ELSE LET c == ChequeoFavorito("crear_favorito", a.usuario, d.id_usuario, d.id_cancion) IN
            IF c.ok THEN Encola(w, tok, [op |-> "crear_favorito", arg |-> d])
            ELSE IF c.status # 400 THEN Falla("crear_favorito", c, tok, d)
            ELSE /\ favoritos' = favoritos \cup {[id |-> NextId(favoritos),
                                                  id_usuario |-> d.id_usuario,
                                                  id_cancion |-> d.id_cancion]}
                 /\ resp' = Respuesta("crear_favorito", c.status, c.detail, c.hdr, tok, d, Null)
                 /\ UNCHANGED <<usuarios, canciones, tokens, emitidos, now, pend>>

\* Faulty variant: the user and the song are looked up before the caller is
\* compared with the user of the body.
crear_favorito_existencia_antes(w, tok, d) ==
    /\ pend[w] = Idle
    /\ CupoFavoritos
    /\ LET a == obtener_usuario_actual(tok) IN
       IF ~a.ok THEN Falla("crear_favorito", a, tok, d)
       ELSE IF ~(d.id_usuario > 0 /\ d.id_cancion > 0)
       THEN Falla("crear_favorito", ErrorValidacion, tok, d)
       ELSE IF ~Existe(usuarios, d.id_usuario)
       THEN Falla("crear_favorito", Rechazo(404, "Usuario no encontrado", ""), tok, d)
       ELSE IF ~Existe(canciones, d.id_cancion)
       THEN Falla("crear_favorito", Rechazo(404, "Cancion no encontrada", ""), tok, d)
       ELSE LET c == ChequeoFavorito("crear_favorito", a.usuario, d.id_usuario, d.id_cancion) IN
            IF ~c.ok THEN Falla("crear_favorito", c, tok, d)
            ELSE Encola(w, tok, [op |-> "crear_favorito", arg |-> d])

crear_favorito(w, tok, d) ==
    /\ pend[w] = Idle
    /\ CupoFavoritos
    /\ LET a == obtener_usuario_actual(tok) IN
       IF ~a.ok THEN Falla("crear_favorito", a, tok, d)
       \* FavoritoBase: id_usuario gt=0, id_cancion gt=0
       ELSE IF ~(d.id_usuario > 0 /\ d.id_cancion > 0)
       THEN Falla("crear_favorito", ErrorValidacion, tok, d)
       ELSE LET c == ChequeoFavorito("crear_favorito", a.usuario, d.id_usuario, d.id_cancion) IN
            IF ~c.ok THEN Falla("crear_favorito", c, tok, d)
            ELSE Encola(w, tok, [op |-> "crear_favorito", arg |-> d])

obtener_favorito(tok, id) ==
    LET a == obtener_usuario_actual(tok) IN
    IF ~a.ok THEN Falla("obtener_favorito", a, tok, id)
    ELSE IF ~Existe(favoritos, id)
    THEN Falla("obtener_favorito", Rechazo(404, "Favorito no encontrado", ""), tok, id)
    ELSE IF NoEsPropioNiAdmin(a.usuario, Fila(favoritos, id).id_usuario)
    THEN Falla("obtener_favorito",
               Rechazo(403, "No tiene permisos para ver este favorito", ""), tok, id)
    \* FavoritoConDetalles needs the favorite's usuario and cancion
    ELSE IF ~(Existe(usuarios, Fila(favoritos, id).id_usuario)
              /\ Existe(canciones, Fila(favoritos, id).id_cancion))
    THEN Falla("obtener_favorito", ErrorInterno, tok, id)
    ELSE /\ resp' = Respuesta("obtener_favorito", 200, "", "", tok, id,
                              [id |-> id,
                               usuario |-> UsuarioRead(Fila(usuarios, Fila(favoritos, id).id_usuario)),
                               cancion |-> Fila(favoritos, id).id_cancion])
         /\ SinCambio

eliminar_favorito(w, tok, id) ==
    /\ pend[w] = Idle
    /\ LET a == obtener_usuario_actual(tok) IN
       IF ~a.ok THEN Falla("eliminar_favorito", a, tok, id)
       ELSE IF ~Existe(favoritos, id)
       THEN Falla("eliminar_favorito", Rechazo(404, "Favorito no encontrado", ""), tok, id)
       ELSE IF NoEsPropioNiAdmin(a.usuario, Fila(favoritos, id).id_usuario)
       THEN Falla("eliminar_favorito",
                  Rechazo(403, "No tiene permisos para eliminar este favorito", ""), tok, id)
       ELSE Encola(w, tok, [op |-> "eliminar_favorito", arg |-> id, id |-> id])

(***************************************************************************)
(* main: the two endpoints without dependencies.                           *)
(***************************************************************************)
root(tok) ==
    /\ resp' = Respuesta("root", 200, "", "", tok, <<>>, Null)
    /\ SinCambio

health_check(tok) ==
    /\ resp' = Respuesta("health_check", 200, "", "", tok, <<>>, Null)
    /\ SinCambio

\* Time passes.
Avanza(d) ==
    /\ now + d <= MaxNow
    /\ now' = now + d
    /\ UNCHANGED <<usuarios, canciones, favoritos, tokens, emitidos, pend, resp>>

Tick == Avanza(1)

\* The response of the last step has gone out to its client.  The steps of
\* the program are taken between responses (Listo), so that resp is the
\* outcome of exactly the step before.
Entrega ==
    /\ resp # Nada
    /\ resp' = Nada
    /\ UNCHANGED <<usuarios, canciones, favoritos, tokens, emitidos, now, pend>>

Listo == resp = Nada

(***************************************************************************)
(* Initial state: the store of the test fixtures (an administrator, a      *)
(* regular user, one song) and the tokens the two users were issued at     *)
(* login at time 0.  No endpoint writes the activo column: a user is       *)
(* deactivated in the store itself, which Init allows for the regular user.*)
(***************************************************************************)
UsuarioSemilla(id, rol, activo) ==
    [id |-> id, nombre |-> 1, correo |-> id, contrasena_hash |-> hashear_contrasena(1),
     rol |-> rol, activo |-> activo, fecha_registro |-> 0]

CancionSemilla == [id |-> 1, titulo |-> 1, duracion |-> 180, anio |-> 2020]

TokenInicial(u) == crear_access_token(u.correo, u.rol, DefaultTtl, 0)

InitStore(activos) ==
    /\ \E activo \in activos :
          usuarios = {UsuarioSemilla(1, ADMINISTRADOR, TRUE), UsuarioSemilla(2, USUARIO, activo)}
    /\ canciones = {CancionSemilla}
    /\ favoritos = {}
    /\ now = 0
    /\ pend = [w \in Workers |-> Idle]
    /\ resp = Nada

InitTokens ==
    /\ tokens = {TokenInicial(u) : u \in usuarios}
    /\ emitidos = {Emision(TokenInicial(u), u.id, 0, DefaultTtl) : u \in usuarios}

\* Both seeded users active.
InitActivos == InitStore({TRUE}) /\ InitTokens

\* The regular user may have been deactivated after logging in.
Init == InitStore(BOOLEAN) /\ InitTokens

(***************************************************************************)
(* Request inputs.                                                         *)
(***************************************************************************)
UsuarioIds == 1..MaxUsuarioId
CancionIds == 1..MaxCancionId
FavoritoIds == 1..MaxFavoritoId

\* The thread pool hands a request to a free worker; which one is immaterial.
Libres == {w \in Workers : pend[w] = Idle /\ \A v \in Workers : v < w => pend[v] # Idle}

Registros == [nombre : {1}, correo : Correos, contrasena : {1}]

Altas == [nombre : {1}, correo : Correos, contrasena : {1},
          rol : {USUARIO, ADMINISTRADOR, "otro", RolNull}]

AltasDeUsuario == {a \in Altas : a.rol = USUARIO}

\* The passwords tried at login.
Intentos == Passwords \cup {ContrasenaCorta}

\* UsuarioUpdate bodies: no field set, or the correo alone.
SinCampos == [nombre |-> Unset, correo |-> Unset, contrasena |-> Unset]

UpdatesDeCorreo == {[SinCampos EXCEPT !.correo = v] : v \in Correos \cup {Null}}

\* The changes to an account: a new correo, a new password.
UpdatesDeCuenta == {[SinCampos EXCEPT !.correo = 3], [SinCampos EXCEPT !.contrasena = 2]}

FavoritoCreates == [id_usuario : UsuarioIds, id_cancion : CancionIds]

\* The inputs of Spec: the regular user's account (id 2), a new user and a
\* new song.
Cuentas == {2}

RegistrosNuevos == {d \in Registros : d.correo = NumCorreos}

AltasNuevas == {d \in AltasDeUsuario : d.correo = NumCorreos}

CancionesNuevas == {2}

FavoritosProbados == {1}

FavoritosDeCuenta == {d \in FavoritoCreates : d.id_usuario \in Cuentas /\ d.id_cancion = 1}

CancionNueva == [titulo |-> 2, duracion |-> 200, anio |-> Null]

\* CancionCreate bodies: a valid one and two the validators refuse.
CancionCreates ==
    {CancionNueva,
     [CancionNueva EXCEPT !.duracion = 7201],
     [CancionNueva EXCEPT !.anio = CurrentYear + 2]}

CancionSinCampos == [titulo |-> Unset, duracion |-> Unset, anio |-> Unset]

CancionUpdates ==
    {[CancionSinCampos EXCEPT !.titulo = 3],
     [CancionSinCampos EXCEPT !.titulo = Null],
     [CancionSinCampos EXCEPT !.duracion = 0]}

(***************************************************************************)
(* Spec: every endpoint of the API, one request at a time (a request's     *)
(* commit comes before the next request is handled), with any presentable  *)
(* token, while time passes.                                               *)
(***************************************************************************)
Next ==
    \/ Listo /\ \E correo \in Correos, contrasena \in Intentos : login(correo, contrasena)
    \/ Listo /\ \E correo \in Correos, contrasena \in Intentos : login_json(correo, contrasena)
    \/ Listo /\ \E d \in RegistrosNuevos : registrar_usuario(1, d)
    \/ Listo /\ insertar_usuario_commit(1)
    \/ Listo /\ \E tok \in Presentables : obtener_perfil(tok)
    \/ Listo /\ \E tok \in Presentables : verificar_token_endpoint(tok)
    \/ Listo /\ \E tok \in Presentables : listar_usuarios(tok)
    \/ Listo /\ \E tok \in Presentables, d \in AltasNuevas : crear_usuario(1, tok, d)
    \/ Listo /\ \E tok \in Presentables, id \in Cuentas : obtener_usuario(tok, id)
    \/ Listo /\ \E tok \in Presentables, id \in Cuentas, body \in UpdatesDeCuenta :
                   actualizar_usuario(1, tok, id, body)
    \/ Listo /\ actualizar_usuario_commit(1)
    \/ Listo /\ \E tok \in Presentables, id \in Cuentas : eliminar_usuario(1, tok, id)
    \/ Listo /\ eliminar_usuario_commit(1)
    \/ Listo /\ \E tok \in Presentables, id \in Cuentas : listar_favoritos_usuario(tok, id)
    \/ Listo /\ \E tok \in Presentables, d \in FavoritosDeCuenta :
                   marcar_favorito(1, tok, d.id_usuario, d.id_cancion)
    \/ Listo /\ insertar_favorito_commit(1)
    \/ Listo /\ \E tok \in Presentables, d \in FavoritosDeCuenta :
                   eliminar_favorito_especifico(1, tok, d.id_usuario, d.id_cancion)
    \/ Listo /\ eliminar_favorito_commit(1)
    \/ Listo /\ \E tok \in Presentables : listar_canciones(tok)
    \/ Listo /\ \E tok \in Presentables, d \in CancionCreates : crear_cancion(tok, d)
    \/ Listo /\ \E tok \in Presentables : buscar_canciones(tok, Null)
    \/ Listo /\ \E tok \in Presentables, id \in CancionesNuevas : obtener_cancion(tok, id)
    \/ Listo /\ \E tok \in Presentables, id \in CancionesNuevas, body \in CancionUpdates :
                   actualizar_cancion(1, tok, id, body)
    \/ Listo /\ actualizar_cancion_commit(1)
    \/ Listo /\ \E tok \in Presentables, id \in CancionesNuevas : eliminar_cancion(1, tok, id)
    \/ Listo /\ eliminar_cancion_commit(1)
    \/ Listo /\ \E tok \in Presentables : listar_favoritos(tok, 0, MaxFavoritoId)
    \/ Listo /\ \E tok \in Presentables, d \in FavoritosDeCuenta : crear_favorito(1, tok, d)
    \/ Listo /\ \E tok \in Presentables, id \in FavoritosProbados : obtener_favorito(tok, id)
    \/ Listo /\ \E tok \in Presentables, id \in FavoritosProbados : eliminar_favorito(1, tok, id)
    \/ Listo /\ \E tok \in Presentables : root(tok)
    \/ Listo /\ \E tok \in Presentables : health_check(tok)
    \/ Listo /\ Tick
    \/ Entrega

Spec == Init /\ [][Next]_vars

\* The endpoints that depend on obtener_usuario_actual, directly or through
\* verificar_administrador.
Protegidos ==
    {"obtener_perfil", "verificar_token_endpoint",
     "listar_usuarios", "crear_usuario", "obtener_usuario", "actualizar_usuario",
     "eliminar_usuario", "listar_favoritos_usuario", "marcar_favorito",
     "eliminar_favorito_especifico",
     "listar_canciones", "crear_cancion", "buscar_canciones", "obtener_cancion",
     "actualizar_cancion", "eliminar_cancion",
     "listar_favoritos", "crear_favorito", "obtener_favorito", "eliminar_favorito"}

\* Every endpoint of the application except login and register.
TodosSalvoLoginYRegistro == Protegidos \cup {"root", "health_check"}

\* r is the outcome of a handler's first step: its response, or the request
\* let through to its commit.
DeHandler(r, ops) == r.op \in ops /\ r.fase \in {"inicio", "pendiente"}

CreaFavorito == {"marcar_favorito", "crear_favorito"}

EmitidoEnLogin(tok) == \E e \in emitidos : e.tok = tok /\ e.uid # Null

AntesDeExpirar(tok) == \E e \in emitidos : e.tok = tok /\ now < e.iat + e.ttl

\* The token is expired: the present second is after the second of the
\* expiration instant of every issuance of the token (the exp claim of a
\* JWT counts whole seconds).
DespuesDeExpirar(tok) ==
    /\ \E e \in emitidos : e.tok = tok
    /\ \A e \in emitidos : e.tok = tok => Timegm(now) > Timegm(e.iat + e.ttl)

\* C6 as stated: a token issued at login is accepted (not answered 401) by
\* every protected endpoint until its expiration instant, whatever has
\* happened to the account since.
C6_ValidoHastaExpirar ==
    [][(/\ DeHandler(resp', Protegidos)
        /\ EmitidoEnLogin(resp'.tok)
        /\ AntesDeExpirar(resp'.tok))
       => resp'.status # 401]_vars

\* C6: a token issued at login is accepted by every protected endpoint
\* until its expiration instant as long as a stored user holds the email the
\* token names: not answered 401, and not 403 "Usuario inactivo" if that
\* user is active.  A password change does not end it; an email change or
\* the deletion of the account does.
C6_ValidoMientrasExistaCorreo ==
    [][(/\ DeHandler(resp', Protegidos)
        /\ EmitidoEnLogin(resp'.tok)
        /\ AntesDeExpirar(resp'.tok)
        /\ PorCorreo(resp'.tok.sub) # {})
       => (/\ resp'.status # 401
           /\ Primero(PorCorreo(resp'.tok.sub)).activo
                  => ~(resp'.status = 403 /\ resp'.detail = "Usuario inactivo"))]_vars

\* The user changed the password after the login, and the token of that
\* login is still accepted.
C6_TrasCambioDeContrasena ==
    /\ resp.op = "obtener_perfil"
    /\ resp.status = 200
    /\ EmitidoEnLogin(resp.tok)
    /\ \E u \in PorCorreo(resp.tok.sub) : u.contrasena_hash = hashear_contrasena(2)

\* The ways a token fails authentication.
SinToken(tok) == tok.firma = "none"

FirmaMala(tok) == tok.firma = "bad"

Vencido(tok) == tok.firma = "ok" /\ DespuesDeExpirar(tok)

SinSujeto(tok) == tok.firma = "ok" /\ tok.sub = Null

SujetoDesconocido(tok) == tok.firma = "ok" /\ tok.sub # Null /\ PorCorreo(tok.sub) = {}

TokenDefectuoso(tok) ==
    SinToken(tok) \/ FirmaMala(tok) \/ Vencido(tok) \/ SinSujeto(tok) \/ SujetoDesconocido(tok)

\* The request is answered 401 and neither writes nor is let through to a
\* commit.
Rechazada401 ==
    /\ resp'.fase = "inicio"
    /\ resp'.status = 401
    /\ Store' = Store
    /\ pend' = pend

\* C8 as stated: every endpoint except login and register rejects with 401
\* and without any store change a request whose token is missing, fails
\* signature verification, is expired, lacks a subject, or names an email
\* no stored user has.
C8_TodoProtegido ==
    [][(DeHandler(resp', TodosSalvoLoginYRegistro) /\ TokenDefectuoso(resp'.tok))
       => Rechazada401]_vars

\* C8: every endpoint that depends on obtener_usuario_actual (all but
\* login, register, the root endpoint and the health check) rejects such a
\* request with 401 and without any store change.
C8_Rechazo401 ==
    [][(DeHandler(resp', Protegidos) /\ TokenDefectuoso(resp'.tok))
       => Rechazada401]_vars

\* A delete-user request was refused because the email of its (issued,
\* unexpired) token had left the store.
C8_SujetoYaNoExiste ==
    /\ resp.op = "eliminar_usuario"
    /\ resp.status = 401
    /\ resp.tok \in tokens
    /\ SujetoDesconocido(resp.tok)
    /\ ~Vencido(resp.tok)

\* The token is signed, not yet at its expiration instant, and its subject is a stored inactive user.
DeUsuarioInactivo(tok) ==
    /\ tok.firma = "ok"
    /\ AntesDeExpirar(tok)
    /\ tok.sub # Null
    /\ PorCorreo(tok.sub) # {}
    /\ ~Primero(PorCorreo(tok.sub)).activo

\* C9: a request with a correctly signed, unexpired token of a stored
\* inactive user is rejected with 403, never 401, by every protected
\* endpoint.
C9_Inactivo403 ==
    [][(DeHandler(resp', Protegidos) /\ DeUsuarioInactivo(resp'.tok))
       => (resp'.fase = "inicio" /\ resp'.status = 403)]_vars

\* The deactivated user's token was refused with 403 on create-song.
C9_InactivoRechazado ==
    /\ resp.op = "crear_cancion"
    /\ resp.status = 403
    /\ resp.detail = "Usuario inactivo"
    /\ DeUsuarioInactivo(resp.tok)

\* C10: a token with a bad signature, an expired token and a token whose
\* subject matches no user all get the same response from a protected
\* endpoint: status 401, the same detail and the same headers.
C10_MismaRespuesta ==
    [][(/\ DeHandler(resp', Protegidos)
        /\ (FirmaMala(resp'.tok) \/ Vencido(resp'.tok) \/ SujetoDesconocido(resp'.tok)))
       => (/\ resp'.fase = "inicio"
           /\ <<resp'.status, resp'.detail, resp'.hdr>>
                  = <<401, "No se pudo validar las credenciales", "Bearer">>)]_vars

\* An expired token of a user still stored was refused.
C10_VencidoRechazado ==
    /\ resp.op = "obtener_perfil"
    /\ resp.status = 401
    /\ resp.tok \in tokens
    /\ Vencido(resp.tok)
    /\ PorCorreo(resp.tok.sub) # {}

\* Validation, conflict, not-found, authentication and authorization errors.
ErroresDeCliente == {400, 401, 403, 404, 422}

\* C18: every request that ends in a validation, conflict, not-found,
\* authentication or authorization error leaves the persistent store as it
\* was before the request: the error is raised in the handler's first step,
\* before anything is written or handed to a commit.
C18_ErrorSinEscritura ==
    [][resp'.status \in ErroresDeCliente
       => (/\ resp'.fase = "inicio"
           /\ Store' = Store
           /\ pend' = pend)]_vars

\* An update-user request naming an email that another user holds was
\* answered 400 and the target kept its email.
C18_ConflictoSinCambio ==
    /\ resp.op = "actualizar_usuario"
    /\ resp.status = 400
    /\ resp.arg.body.correo = 3
    /\ \E u \in usuarios : u.id = resp.arg.id /\ u.correo = 2
    /\ \E u \in usuarios : u.id # resp.arg.id /\ u.correo = 3

Login == {"login", "login_json"}

\* The stored user the request's email names has the request's password.
CredencialesBuenas(r) ==
    /\ PorCorreo(r.arg.correo) # {}
    /\ Primero(PorCorreo(r.arg.correo)).contrasena_hash = hashear_contrasena(r.arg.contrasena)

\* The outcome of a login request by its credentials: a token with the
\* user's email and role for good credentials of an active user, 403 for good
\* credentials of an inactive user, one and the same 401 otherwise.
LoginSegunCredenciales(r) ==
    /\ r.status = 200 <=> (CredencialesBuenas(r) /\ Primero(PorCorreo(r.arg.correo)).activo)
    /\ r.status = 403 <=> (CredencialesBuenas(r) /\ ~Primero(PorCorreo(r.arg.correo)).activo)
    /\ ~CredencialesBuenas(r)
          => <<r.status, r.detail, r.hdr>> = <<401, "Credenciales incorrectas", "Bearer">>
    /\ r.status = 200
          => (/\ r.cuerpo.access_token.firma = "ok"
              /\ r.cuerpo.access_token.sub = Primero(PorCorreo(r.arg.correo)).correo
              /\ r.cuerpo.access_token.rol = Primero(PorCorreo(r.arg.correo)).rol
              /\ r.cuerpo.rol = Primero(PorCorreo(r.arg.correo)).rol)

\* C11 as stated: login, form or JSON, issues a token if and only if the
\* email matches a stored user, the password verifies against that user's
\* hash and the user is active; the token has the user's current email and
\* stored role; an unknown email and a wrong password get the same 401, and
\* an inactive user gets 403 only with the correct password.
C11_LoginFormOJson ==
    [][resp'.op \in Login
       => (/\ LoginSegunCredenciales(resp')
           /\ resp'.status # 200 => tokens' = tokens)]_vars

\* C11: the same for every login request whose body passes validation (the
\* JSON login refuses a password of fewer than 6 characters with 422 and
\* issues nothing; the form login has no such check).
C11_LoginValidado ==
    [][resp'.op \in Login
       => IF resp'.op = "login_json" /\ Largo(resp'.arg.contrasena) < 6
          THEN resp'.status = 422 /\ tokens' = tokens /\ emitidos' = emitidos
          ELSE /\ LoginSegunCredenciales(resp')
               /\ resp'.status # 200 => (tokens' = tokens /\ emitidos' = emitidos)
               /\ resp'.status = 200 => resp'.cuerpo.access_token \in tokens']_vars

\* A login succeeded for the account whose email had been changed, and the
\* token names the new email.
C11_LoginConCorreoNuevo ==
    /\ resp.op \in Login
    /\ resp.status = 200
    /\ resp.cuerpo.access_token.sub = 3
    /\ \E u \in usuarios : u.id = 2 /\ u.correo = 3

(***************************************************************************)
(* SpecUsuarios: the requests that write the usuarios table, from          *)
(* concurrent workers.                                                     *)
(***************************************************************************)
NextUsuarios ==
    \/ Listo /\ \E w \in Libres, d \in Registros : registrar_usuario(w, d)
    \/ Listo /\ \E w \in Libres, tok \in Presentables, d \in AltasDeUsuario : crear_usuario(w, tok, d)
    \/ Listo /\ \E w \in Workers : insertar_usuario_commit(w)
    \/ Listo /\ \E w \in Libres, tok \in Presentables, id \in UsuarioIds,
                   body \in {SinCampos} \cup UpdatesDeCorreo :
                   actualizar_usuario(w, tok, id, body)
    \/ Listo /\ \E w \in Workers : actualizar_usuario_commit(w)
    \/ Listo /\ \E w \in Libres, tok \in Presentables, id \in UsuarioIds :
                   eliminar_usuario(w, tok, id)
    \/ Listo /\ \E w \in Workers : eliminar_usuario_commit(w)
    \/ Entrega

SpecUsuarios == InitActivos /\ [][NextUsuarios]_vars

\* C1: in every reachable state no two stored users have the same email,
\* whatever the interleaving of register, create-user, update-user and
\* delete-user requests.
C1_CorreoUnico ==
    \A u \in usuarios : \A v \in usuarios : u.correo = v.correo => u = v

\* An update-user request passed its check, another request took the email
\* before its commit, and the store refused the write.
C1_CarreraRechazada ==
    /\ resp.op = "actualizar_usuario"
    /\ resp.fase = "commit"
    /\ resp.status = 500
    /\ Existe(usuarios, resp.arg.id)
    /\ CorreoDuplicado(resp.arg.body.correo, resp.arg.id)

AltaDeUsuario == {"registrar_usuario", "crear_usuario"}

\* The caller of the request may create users: register is open, create-user
\* needs an administrator's token.
AltaAutorizada(r) == r.op = "crear_usuario" => verificar_administrador(r.tok).ok

\* C2: a register or create-user request that names an email a stored user
\* has when it is handled is rejected with 400, adds no user (neither now
\* nor later: it is not let through to a commit), and exactly one stored user
\* has that email.
C2_CorreoDuplicado400 ==
    [][(/\ resp'.op \in AltaDeUsuario
        /\ resp'.fase \in {"inicio", "pendiente"}
        /\ AltaAutorizada(resp')
        /\ PorCorreo(resp'.arg.correo) # {})
       => (/\ resp'.fase = "inicio"
           /\ resp'.status = 400
           /\ usuarios' = usuarios
           /\ pend' = pend
           /\ Cardinality({u \in usuarios' : u.correo = resp'.arg.correo}) = 1)]_vars

\* A user registered, and a later create-user with the same email got 400.
C2_SegundoIntento ==
    /\ resp.op = "crear_usuario"
    /\ resp.status = 400
    /\ resp.arg.correo = 3
    /\ Cardinality({u \in usuarios : u.correo = 3}) = 1

(***************************************************************************)
(* SpecAdmin: the four administrator-only endpoints together with the      *)
(* requests that change who holds an email (update-user, register), from   *)
(* concurrent workers.                                                     *)
(***************************************************************************)
NextAdmin ==
    \/ Listo /\ \E tok \in Presentables : listar_usuarios(tok)
    \/ Listo /\ \E w \in Libres, tok \in Presentables, d \in AltasDeUsuario : crear_usuario(w, tok, d)
    \/ Listo /\ \E tok \in Presentables, id \in UsuarioIds : obtener_usuario(tok, id)
    \/ Listo /\ \E w \in Libres, tok \in Presentables, id \in UsuarioIds :
                   eliminar_usuario(w, tok, id)
    \/ Listo /\ \E w \in Workers : eliminar_usuario_commit(w)
    \/ Listo /\ \E w \in Libres, d \in Registros : registrar_usuario(w, d)
    \/ Listo /\ \E w \in Workers : insertar_usuario_commit(w)
    \/ Listo /\ \E w \in Libres, tok \in tokens, id \in UsuarioIds, body \in UpdatesDeCorreo :
                   actualizar_usuario(w, tok, id, body)
    \/ Listo /\ \E w \in Workers : actualizar_usuario_commit(w)
    \/ Entrega

SpecAdmin == InitActivos /\ [][NextAdmin]_vars

SoloAdmin == {"listar_usuarios", "crear_usuario", "obtener_usuario", "eliminar_usuario"}

\* The caller of a request: the stored user its token authenticates as.
Autenticado(tok) == obtener_usuario_actual(tok).ok

Llamante(tok) == obtener_usuario_actual(tok).usuario

\* The request got no further than a 403: nothing written, nothing let
\* through to a commit.
Rechazada403 ==
    /\ resp'.fase = "inicio"
    /\ resp'.status = 403
    /\ Store' = Store
    /\ pend' = pend

TitularesDe(tok) == {e.uid : e \in {e \in emitidos : e.tok = tok}}

\* C26 (checked under SpecAdmin): a token issued at login to the user with
\* id U never authenticates a request as a user with a different id: after
\* any sequence of email updates, deletions and registrations the token
\* either resolves to user U or is rejected.
C26_TokenDeSuTitular ==
    [][(/\ DeHandler(resp', Protegidos)
        /\ resp'.tok \in tokens
        /\ Autenticado(resp'.tok))
       => Llamante(resp'.tok).id \in TitularesDe(resp'.tok)]_vars

\* The endpoints that take the id of a user in their path, and those that
\* take the id of a Favorite.
PorUsuario ==
    {"actualizar_usuario", "listar_favoritos_usuario", "marcar_favorito",
     "eliminar_favorito_especifico"}

PorFavorito == {"obtener_favorito", "eliminar_favorito"}

\* The user id in the path of a request of PorUsuario.
UsuarioObjetivo(r) ==
    IF r.op = "actualizar_usuario" THEN r.arg.id
    ELSE IF r.op = "listar_favoritos_usuario" THEN r.arg
    ELSE r.arg.id_usuario

\* The request targets a resource that does not exist.
ObjetivoInexistente(r) ==
    IF r.op \in PorUsuario THEN ~Existe(usuarios, UsuarioObjetivo(r))
    ELSE ~Existe(favoritos, r.arg)

\* The request targets a resource that exists and belongs to a user other
\* than quien.
ObjetivoAjeno(r, quien) ==
    IF r.op \in PorUsuario
    THEN Existe(usuarios, UsuarioObjetivo(r)) /\ UsuarioObjetivo(r) # quien.id
    ELSE Existe(favoritos, r.arg) /\ Fila(favoritos, r.arg).id_usuario # quien.id

\* The step answers a request of kind ops from an authenticated caller who
\* is not an administrator, with a body that passes validation.
DeNoAdministrador(ops) ==
    /\ DeHandler(resp', ops)
    /\ Autenticado(resp'.tok)
    /\ Llamante(resp'.tok).rol # ADMINISTRADOR
    /\ resp'.status # 422

\* A caller who is not an administrator gets 403 for an existing resource
\* of another user, on every endpoint of PorUsuario and PorFavorito.
C29_AjenoExistente403 ==
    [][(DeNoAdministrador(PorUsuario \cup PorFavorito)
        /\ ObjetivoAjeno(resp', Llamante(resp'.tok)))
       => resp'.status = 403]_vars

\* C29: the response a caller who is not an administrator receives for an
\* operation on another user's resource does not depend on whether the
\* resource exists: for update-user, read-favorite-by-id,
\* delete-favorite-by-id and the /usuarios/{id}/favoritos endpoints the
\* status for a target that does not exist is the status for an existing
\* target owned by someone else, which is 403.
C29_MismaRespuestaSinObjetivo ==
    [][(DeNoAdministrador(PorUsuario \cup PorFavorito)
        /\ (ObjetivoInexistente(resp') \/ ObjetivoAjeno(resp', Llamante(resp'.tok))))
       => resp'.status = 403]_vars

\* The same for the /usuarios/{id}/favoritos endpoints alone, which check
\* the caller before the target.
C29_MismaRespuestaPorUsuario ==
    [][(DeNoAdministrador(PorUsuario \ {"actualizar_usuario"})
        /\ (ObjetivoInexistente(resp') \/ ObjetivoAjeno(resp', Llamante(resp'.tok))))
       => resp'.status = 403]_vars

\* The body sets no field to null, and the email it sets, if any, is not
\* held by a user other than the target.
CuerpoAplicable(body, id) ==
    /\ \A campo \in DOMAIN body : body[campo] # Null
    /\ body.correo # Unset => \A u \in usuarios : u.correo = body.correo => u.id = id

\* C13 (checked under SpecUsuarios): update-user on an existing user changes
\* the record only if the caller's id equals the target id or the caller is
\* an administrator.  A non-administrator targeting another existing user
\* gets 403 and the target is unchanged; a user updating their own record
\* is let through and the update is applied (200) when its turn to commit
\* comes.  A stored user's record changes in no other way.
C13_PropioOAdmin ==
    [][/\ (/\ DeHandler(resp', {"actualizar_usuario"})
            /\ Autenticado(resp'.tok)
            /\ Existe(usuarios, resp'.arg.id))
          => (/\ (/\ Llamante(resp'.tok).rol # ADMINISTRADOR
                   /\ Llamante(resp'.tok).id # resp'.arg.id) => Rechazada403
              /\ resp'.fase = "pendiente"
                     => (\/ Llamante(resp'.tok).id = resp'.arg.id
                         \/ Llamante(resp'.tok).rol = ADMINISTRADOR)
              /\ (/\ Llamante(resp'.tok).id = resp'.arg.id
                   /\ CuerpoAplicable(resp'.arg.body, resp'.arg.id))
                     => resp'.fase = "pendiente")
       /\ (/\ resp'.op = "actualizar_usuario"
            /\ resp'.fase = "commit"
            /\ Existe(usuarios, resp'.arg.id)
            /\ CuerpoAplicable(resp'.arg.body, resp'.arg.id))
          => (resp'.status = 200 /\ Existe(usuarios', resp'.arg.id))
       /\ \A u \in usuarios :
              (Existe(usuarios', u.id) /\ Fila(usuarios', u.id) # u)
                 => (/\ resp'.op = "actualizar_usuario"
                     /\ resp'.fase = "commit"
                     /\ resp'.arg.id = u.id)]_vars

\* A regular user's update of the administrator's record was refused.
C13_AjenoRechazado ==
    /\ resp.op = "actualizar_usuario"
    /\ resp.status = 403
    /\ Autenticado(resp.tok)
    /\ Llamante(resp.tok).rol = USUARIO
    /\ resp.arg.id = 1
    /\ Existe(usuarios, 1)
    /\ resp.arg.body.correo = 3

(***************************************************************************)
(* SpecFavoritos: the requests that write the favoritos table and the      *)
(* deletions of its parents, from concurrent workers.                      *)
(***************************************************************************)
NextFavoritos ==
    \/ Listo /\ \E w \in Libres, tok \in tokens, d \in FavoritoCreates :
                   marcar_favorito(w, tok, d.id_usuario, d.id_cancion)
    \/ Listo /\ \E w \in Libres, tok \in tokens, d \in FavoritoCreates : crear_favorito(w, tok, d)
    \/ Listo /\ \E w \in Workers : insertar_favorito_commit(w)
    \/ Listo /\ \E w \in Libres, tok \in tokens, d \in FavoritoCreates :
                   eliminar_favorito_especifico(w, tok, d.id_usuario, d.id_cancion)
    \/ Listo /\ \E w \in Libres, tok \in tokens, id \in FavoritoIds : eliminar_favorito(w, tok, id)
    \/ Listo /\ \E tok \in tokens, id \in FavoritoIds : obtener_favorito(tok, id)
    \/ Listo /\ \E w \in Workers : eliminar_favorito_commit(w)
    \/ Listo /\ \E w \in Libres, tok \in tokens, id \in UsuarioIds : eliminar_usuario(w, tok, id)
    \/ Listo /\ \E w \in Workers : eliminar_usuario_commit(w)
    \/ Listo /\ \E w \in Libres, tok \in tokens, id \in CancionIds : eliminar_cancion(w, tok, id)
    \/ Listo /\ \E w \in Workers : eliminar_cancion_commit(w)
    \/ Listo /\ \E tok \in tokens : crear_cancion(tok, CancionNueva)
    \/ Entrega

SpecFavoritos == InitActivos /\ [][NextFavoritos]_vars

\* C4: under every interleaving of concurrent create-favorite requests the
\* store never holds two Favorite rows with the same (user id, song id) pair.
C4_ParUnico ==
    \A f \in favoritos : \A g \in favoritos :
        (f.id_usuario = g.id_usuario /\ f.id_cancion = g.id_cancion) => f = g

\* C5: in every reachable state every Favorite references an existing user
\* and an existing song (no row is left behind by a delete-user or
\* delete-song request).
C5_SinHuerfanos ==
    \A f \in favoritos :
        Existe(usuarios, f.id_usuario) /\ Existe(canciones, f.id_cancion)


Borrados == {"eliminar_favorito", "eliminar_favorito_especifico"}

\* The caller may act on the Favorites of user id: the caller is that user
\* or an administrator.
Puede(quien, id) == quien.id = id \/ quien.rol = ADMINISTRADOR

\* The step is the commit of a request of kind ops whose caller may act on
\* the Favorites of user id.
CommitDe(ops, id) ==
    \E w \in Workers :
        /\ pend[w].op \in ops
        /\ pend'[w] = Idle
        /\ Puede(pend[w].llamante, id)

\* C14: creating, reading by id and deleting a Favorite, through either
\* router, takes effect only if the caller's id equals the Favorite's user
\* id or the caller is an administrator; otherwise the caller gets 403 and no
\* Favorite is created, returned or removed.
C14_SoloPropietarioOAdmin ==
    [][/\ (/\ DeHandler(resp', CreaFavorito \cup {"eliminar_favorito_especifico"})
            /\ Autenticado(resp'.tok)
            /\ ~Puede(Llamante(resp'.tok), resp'.arg.id_usuario))
          => Rechazada403
       /\ (/\ DeHandler(resp', {"obtener_favorito", "eliminar_favorito"})
            /\ Autenticado(resp'.tok)
            /\ Existe(favoritos, resp'.arg)
            /\ ~Puede(Llamante(resp'.tok), Fila(favoritos, resp'.arg).id_usuario))
          => Rechazada403
       /\ \A f \in favoritos' \ favoritos : CommitDe(CreaFavorito, f.id_usuario)
       /\ \A f \in favoritos \ favoritos' : CommitDe(Borrados, f.id_usuario)]_vars

(***************************************************************************)
(* SpecListas: the two list-favorites endpoints, with any skip and limit,  *)
(* over the stores that creating and deleting Favorites produce.           *)
(***************************************************************************)
Skips == -1..MaxFavoritoId

Limits == -1..MaxFavoritoId

NextListas ==
    \/ Listo /\ \E tok \in Presentables, skip \in Skips, limit \in Limits :
                   listar_favoritos(tok, skip, limit)
    \/ Listo /\ \E tok \in Presentables, id \in UsuarioIds : listar_favoritos_usuario(tok, id)
    \/ Listo /\ \E tok \in tokens, d \in FavoritoCreates : crear_favorito(1, tok, d)
    \/ Listo /\ insertar_favorito_commit(1)
    \/ Listo /\ \E tok \in tokens, id \in FavoritoIds : eliminar_favorito(1, tok, id)
    \/ Listo /\ eliminar_favorito_commit(1)
    \/ Listo /\ \E tok \in tokens : crear_cancion(tok, CancionNueva)
    \/ Entrega

SpecListas == InitActivos /\ [][NextListas]_vars

\* The Favorites of a user, and how many rows a page holds of n rows.
FavoritosDelUsuario(id) == {f \in favoritos : f.id_usuario = id}

Restantes(n, skip) == IF skip <= 0 THEN n ELSE IF skip >= n THEN 0 ELSE n - skip

EnPagina(n, skip, limit) ==
    IF limit < 0 \/ limit >= Restantes(n, skip) THEN Restantes(n, skip) ELSE limit

\* The rows of the set S that a page shows: a subset of S with as many rows
\* as the page holds.
EsPaginaDe(cuerpo, S, arg) ==
    /\ cuerpo \subseteq S
    /\ Cardinality(cuerpo) = EnPagina(Cardinality(S), arg.skip, arg.limit)

\* C15: list-favorites returns to a non-administrator only Favorite rows
\* whose user id is the caller's id, and all of them within the page; to an
\* administrator it returns the rows of every user.  Whatever skip and
\* limit are, a non-administrator never receives another user's Favorite
\* (nor, through /usuarios/{id}/favoritos, another user's favorite songs).
C15_ListaFiltrada ==
    [][/\ (resp'.op = "listar_favoritos" /\ Autenticado(resp'.tok))
          => (/\ resp'.status = 200
              /\ EsPaginaDe(resp'.cuerpo,
                            IF Llamante(resp'.tok).rol = ADMINISTRADOR
                            THEN favoritos
                            ELSE FavoritosDelUsuario(Llamante(resp'.tok).id),
                            resp'.arg))
       /\ (/\ resp'.op = "listar_favoritos_usuario"
            /\ Autenticado(resp'.tok)
            /\ Llamante(resp'.tok).rol # ADMINISTRADOR)
          => IF resp'.arg # Llamante(resp'.tok).id
             THEN resp'.status = 403 /\ resp'.cuerpo = Null
             ELSE /\ resp'.status = 200
                  /\ resp'.cuerpo = {f.id_cancion : f \in FavoritosDelUsuario(resp'.arg)}]_vars

\* The regular user listed with limit 1 while the first row of the table was
\* another user's, and got their own row.
C15_PaginaPropia ==
    /\ resp.op = "listar_favoritos"
    /\ resp.status = 200
    /\ Llamante(resp.tok).rol = USUARIO
    /\ resp.arg = [skip |-> 0, limit |-> 1]
    /\ \E f \in favoritos : f.id = 1 /\ f.id_usuario # Llamante(resp.tok).id
    /\ resp.cuerpo = FavoritosDelUsuario(Llamante(resp.tok).id)
    /\ resp.cuerpo # {}

(***************************************************************************)
(* SpecUpdate: update-user and update-song, one request at a time, with    *)
(* every combination of fields present in the body.                        *)
(***************************************************************************)
UsuarioUpdates == [nombre : {Unset, 2}, correo : {Unset, 3}, contrasena : {Unset, 2}]

CancionUpdatesParciales == [titulo : {Unset, 3}, duracion : {Unset, 300}, anio : {Unset, Null}]

NextUpdate ==
    \/ Listo /\ \E tok \in tokens, id \in UsuarioIds, body \in UsuarioUpdates :
                   actualizar_usuario(1, tok, id, body)
    \/ Listo /\ actualizar_usuario_commit(1)
    \/ Listo /\ \E tok \in tokens, id \in CancionIds, body \in CancionUpdatesParciales :
                   actualizar_cancion(1, tok, id, body)
    \/ Listo /\ actualizar_cancion_commit(1)
    \/ Listo /\ \E tok \in tokens : crear_cancion(tok, CancionNueva)
    \/ Entrega

SpecUpdate == InitActivos /\ [][NextUpdate]_vars

\* The value of a field after an update: the body's if the body has the
\* field, the previous one otherwise.
Tras(body, campo, previo) == IF body[campo] # Unset THEN body[campo] ELSE previo

\* C16: a successful update of a user or of a song changes exactly the
\* fields present in the request body and leaves every other field of the
\* record, and every other record, unchanged.
C16_SoloCamposPresentes ==
    [][/\ (resp'.op = "actualizar_usuario" /\ resp'.fase = "commit" /\ resp'.status = 200)
          => (/\ Existe(usuarios, resp'.arg.id) /\ Existe(usuarios', resp'.arg.id)
              /\ Fila(usuarios', resp'.arg.id) =
                     [Fila(usuarios, resp'.arg.id) EXCEPT
                         !.nombre = Tras(resp'.arg.body, "nombre", @),
                         !.correo = Tras(resp'.arg.body, "correo", @),
                         !.contrasena_hash =
                             IF resp'.arg.body.contrasena # Unset
                             THEN hashear_contrasena(resp'.arg.body.contrasena) ELSE @]
              /\ {u \in usuarios' : u.id # resp'.arg.id} = {u \in usuarios : u.id # resp'.arg.id}
              /\ canciones' = canciones
              /\ favoritos' = favoritos)
       /\ (resp'.op = "actualizar_cancion" /\ resp'.fase = "commit" /\ resp'.status = 200)
          => (/\ Existe(canciones, resp'.arg.id) /\ Existe(canciones', resp'.arg.id)
              /\ Fila(canciones', resp'.arg.id) =
                     [Fila(canciones, resp'.arg.id) EXCEPT
                         !.titulo = Tras(resp'.arg.body, "titulo", @),
                         !.duracion = Tras(resp'.arg.body, "duracion", @),
                         !.anio = Tras(resp'.arg.body, "anio", @)]
              /\ {c \in canciones' : c.id # resp'.arg.id} = {c \in canciones : c.id # resp'.arg.id}
              /\ usuarios' = usuarios
              /\ favoritos' = favoritos)]_vars

\* An update with only the name was applied to the regular user, whose
\* other fields are those of the fixture.
C16_SoloNombre ==
    /\ resp.op = "actualizar_usuario"
    /\ resp.fase = "commit"
    /\ resp.status = 200
    /\ resp.arg = [id |-> 2, body |-> [nombre |-> 2, correo |-> Unset, contrasena |-> Unset]]
    /\ [UsuarioSemilla(2, USUARIO, TRUE) EXCEPT !.nombre = 2] \in usuarios

(***************************************************************************)
(* SpecNulos: update-user and update-song, one request at a time, with     *)
(* bodies that set one field to null.                                      *)
(***************************************************************************)
UsuarioUpdatesNulos ==
    {[SinCampos EXCEPT ![campo] = Null] : campo \in {"nombre", "correo", "contrasena"}}
    \cup {[SinCampos EXCEPT !.nombre = 2]}

CancionUpdatesNulos ==
    {[CancionSinCampos EXCEPT ![campo] = Null] : campo \in {"titulo", "duracion", "anio"}}
    \cup {[CancionSinCampos EXCEPT !.titulo = 3]}

NextNulos ==
    \/ Listo /\ \E tok \in Presentables, id \in UsuarioIds, body \in UsuarioUpdatesNulos :
                   actualizar_usuario(1, tok, id, body)
    \/ Listo /\ actualizar_usuario_commit(1)
    \/ Listo /\ \E tok \in Presentables, id \in CancionIds, body \in CancionUpdatesNulos :
                   actualizar_cancion(1, tok, id, body)
    \/ Listo /\ actualizar_cancion_commit(1)
    \/ Entrega

SpecNulos == InitActivos /\ [][NextNulos]_vars

\* The body of the request sets a field to null that the record requires:
\* nombre, correo or contrasena of a user, titulo or duracion of a song.
NuloEnRequerido(r) ==
    \/ /\ r.op = "actualizar_usuario"
       /\ \E campo \in {"nombre", "correo", "contrasena"} : r.arg.body[campo] = Null
    \/ /\ r.op = "actualizar_cancion"
       /\ \E campo \in {"titulo", "duracion"} : r.arg.body[campo] = Null

\* No stored record has a null in a required field.
SinNulos ==
    /\ \A u \in usuarios : u.nombre # Null /\ u.correo # Null
    /\ \A c \in canciones : c.titulo # Null /\ c.duracion # Null

\* C25: an update-user or update-song request whose body sets a
\* non-nullable field to null is rejected as a validation error (422) and
\* leaves the record unchanged; it never ends in an internal error (500) and
\* never stores a null in a required field.
C25_NuloRechazado422 ==
    /\ []SinNulos
    /\ [][(/\ NuloEnRequerido(resp')
            /\ (resp'.fase = "commit" \/ Autenticado(resp'.tok)))
           => (/\ resp'.fase = "inicio"
               /\ resp'.status = 422
               /\ Store' = Store
               /\ pend' = pend)]_vars

\* What holds of such a request: whatever its answer, the store is as it
\* was and no required field holds a null.
C25_NuloNoAlmacenado ==
    /\ []SinNulos
    /\ [][(NuloEnRequerido(resp') /\ resp'.fase # "pendiente")
           => (resp'.status \notin {200, 201} /\ Store' = Store)]_vars

(***************************************************************************)
(* SpecCanciones: create-song and update-song, one request at a time, with *)
(* durations and years on both sides of the bounds.                        *)
(***************************************************************************)
CancionUpdatesDeRango ==
    {[CancionSinCampos EXCEPT !.duracion = v] : v \in {0, 1, 7200, 7201}}
    \cup {[CancionSinCampos EXCEPT !.anio = v] :
              v \in {1899, 1900, CurrentYear + 1, CurrentYear + 2, 2101, Null}}

NextCanciones ==
    \/ Listo /\ \E tok \in Presentables, d \in CancionCreates : crear_cancion(tok, d)
    \/ Listo /\ \E tok \in Presentables, id \in CancionIds, body \in CancionUpdatesDeRango :
                   actualizar_cancion(1, tok, id, body)
    \/ Listo /\ actualizar_cancion_commit(1)
    \/ Entrega

SpecCanciones == InitActivos /\ [][NextCanciones]_vars

\* C17: in every reachable state, after any sequence of create-song and
\* update-song requests, every stored song has a duration greater than 0
\* and at most 7200 seconds and a release year that is absent or between
\* 1900 and the current year + 1.
C17_RangosDeCancion ==
    \A c \in canciones :
        /\ c.duracion > 0 /\ c.duracion <= 7200
        /\ c.anio = Null \/ (c.anio >= 1900 /\ c.anio <= CurrentYear + 1)

(***************************************************************************)
(* SpecAltas: the two ways a user is created, register and create-user,    *)
(* with bodies that carry any role (and, for register, keys the schema     *)
(* does not declare), and delete-user.                                     *)
(***************************************************************************)
\* A key absent from a JSON body whose values are written as strings.
Ausente == "ausente"

\* Register bodies: the three fields of UsuarioRegister and possibly the
\* extra keys rol and activo.
RegistrosConExtras ==
    [nombre : {1}, correo : Correos, contrasena : {1},
     rol : {Ausente, ADMINISTRADOR}, activo : {Ausente, "false"}]

NextAltas ==
    \/ Listo /\ \E d \in RegistrosConExtras : registrar_usuario(1, d)
    \/ Listo /\ \E tok \in Presentables, d \in Altas : crear_usuario(1, tok, d)
    \/ Listo /\ insertar_usuario_commit(1)
    \/ Listo /\ \E tok \in tokens, id \in UsuarioIds : eliminar_usuario(1, tok, id)
    \/ Listo /\ eliminar_usuario_commit(1)
    \/ Entrega

SpecAltas == InitActivos /\ [][NextAltas]_vars

\* C19: a user created through the register endpoint has role 'usuario'
\* and is active, whatever the request body contains.
C19_RegistroSiempreUsuario ==
    [][(resp'.op = "registrar_usuario" /\ resp'.fase = "commit" /\ resp'.status = 201)
       => (/\ \E u \in usuarios' : u.id = resp'.cuerpo.id
           /\ \A u \in usuarios' \ usuarios :
                 /\ u.id = resp'.cuerpo.id
                 /\ u.correo = resp'.arg.correo
                 /\ u.rol = USUARIO
                 /\ u.activo = TRUE)]_vars

\* A register request whose body carried rol 'administrador' and activo false
\* created a regular, active user.
C19_ExtrasIgnorados ==
    /\ resp.op = "registrar_usuario"
    /\ resp.fase = "commit"
    /\ resp.status = 201
    /\ resp.arg.rol = ADMINISTRADOR
    /\ resp.arg.activo = "false"
    /\ \E u \in usuarios : u.id = resp.cuerpo.id /\ u.rol = USUARIO /\ u.activo

Roles == {USUARIO, ADMINISTRADOR}

\* C20: in every reachable state the role of every stored user is one of
\* 'usuario' and 'administrador'; a create-user request of an administrator
\* with any other role value, null included, is rejected with 400 and
\* creates nothing.
C20_RolValido ==
    /\ [](\A u \in usuarios : u.rol \in Roles)
    /\ [][(/\ DeHandler(resp', {"crear_usuario"})
            /\ verificar_administrador(resp'.tok).ok
            /\ resp'.arg.rol \notin Roles)
           => (/\ resp'.fase = "inicio"
               /\ resp'.status = 400
               /\ usuarios' = usuarios
               /\ pend' = pend)]_vars

\* The administrator's create-user with a null role and a free email was
\* answered 400.
C20_RolNuloRechazado ==
    /\ resp.op = "crear_usuario"
    /\ resp.status = 400
    /\ resp.arg.rol = RolNull
    /\ PorCorreo(resp.arg.correo) = {}
    /\ verificar_administrador(resp.tok).ok

(***************************************************************************)
(* SpecRoles: the requests that write the usuarios table, with bodies that *)
(* carry a role, an active flag and an id whether the schema declares them *)
(* or not, and requests on songs and favorites, from a store with or       *)
(* without an administrator.  The administrator-only requests run on two   *)
(* concurrent workers; the callers hold the tokens of the seeded users.    *)
(***************************************************************************)
\* UsuarioUpdate bodies with the keys rol, activo, id and fecha_registro,
\* which the schema does not declare.
UpdatesConExtras ==
    {[nombre |-> 2, correo |-> Unset, contrasena |-> Unset,
      rol |-> ADMINISTRADOR, activo |-> "false", id |-> 3, fecha_registro |-> 1],
     [nombre |-> Unset, correo |-> 3, contrasena |-> Unset,
      rol |-> Ausente, activo |-> Ausente, id |-> Unset, fecha_registro |-> Unset]}

\* Register bodies that ask for the administrator role.
RegistrosDeAdministrador == {d \in RegistrosConExtras : d.rol = ADMINISTRADOR /\ d.activo = "false"}

AltasConRol == {d \in Altas : d.correo = NumCorreos /\ d.rol \in Roles}

\* The store of the fixtures, or the same with user 1 a regular user; the
\* regular user may have been deactivated in the store.
InitRoles ==
    /\ \E rol \in Roles, activo \in BOOLEAN :
          usuarios = {UsuarioSemilla(1, rol, TRUE), UsuarioSemilla(2, USUARIO, activo)}
    /\ canciones = {CancionSemilla}
    /\ favoritos = {}
    /\ now = 0
    /\ pend = [w \in Workers |-> Idle]
    /\ resp = Nada
    /\ InitTokens

NextRoles ==
    \/ Listo /\ \E d \in RegistrosDeAdministrador : registrar_usuario(1, d)
    \/ Listo /\ \E w \in Libres, tok \in tokens, d \in AltasConRol : crear_usuario(w, tok, d)
    \/ Listo /\ \E w \in Workers : insertar_usuario_commit(w)
    \/ Listo /\ \E tok \in tokens, id \in UsuarioIds, body \in UpdatesConExtras :
                   actualizar_usuario(1, tok, id, body)
    \/ Listo /\ actualizar_usuario_commit(1)
    \/ Listo /\ \E w \in Libres, tok \in tokens, id \in UsuarioIds : eliminar_usuario(w, tok, id)
    \/ Listo /\ \E w \in Workers : eliminar_usuario_commit(w)
    \/ Listo /\ \E tok \in tokens : crear_cancion(tok, CancionNueva)
    \/ Listo /\ \E tok \in tokens, d \in FavoritosDeCuenta : crear_favorito(1, tok, d)
    \/ Listo /\ insertar_favorito_commit(1)
    \/ Entrega

SpecRoles == InitRoles /\ [][NextRoles]_vars

\* The users (ids) with role administrator.
Administradores(tabla) == {u.id : u \in {u \in tabla : u.rol = ADMINISTRADOR}}

\* The step is the commit of a create-user or delete-user request whose
\* caller was authenticated as an administrator.
CommitDeAdministrador ==
    \E w \in Workers :
        /\ pend[w].op \in {"crear_usuario", "eliminar_usuario"}
        /\ pend'[w] = Idle
        /\ pend[w].llamante.rol = ADMINISTRADOR

\* A store without administrators: no user has the role, and no request
\* that an administrator made is still waiting for its commit.
SinAdministradores ==
    /\ Administradores(usuarios) = {}
    /\ \A w \in Workers :
           pend[w].op \in {"crear_usuario", "eliminar_usuario"}
               => pend[w].llamante.rol # ADMINISTRADOR

\* C27: the set of users with role administrator changes only through
\* create-user or delete-user requests authenticated as an administrator:
\* no request of a non-administrator (register, self-update, song and
\* favorite operations) creates an administrator or turns a user into one;
\* starting from a store without administrators, no administrator ever
\* exists.
C27_AdministradoresSoloPorAdministrador ==
    [][/\ Administradores(usuarios') # Administradores(usuarios) => CommitDeAdministrador
       /\ SinAdministradores => SinAdministradores']_vars

\* In a store without administrators, a registration whose body asked for
\* the role administrator created a user, and there is still no
\* administrator.
C27_RegistroNoCreaAdministrador ==
    /\ resp.op = "registrar_usuario"
    /\ resp.status = 201
    /\ resp.arg.rol = ADMINISTRADOR
    /\ Cardinality(usuarios) = 3
    /\ Administradores(usuarios) = {}

\* The ids of the stored users.
IdsDeUsuarios(tabla) == {u.id : u \in tabla}

\* The step is the commit of an update-user request.
CommitDeUpdate ==
    \E w \in Workers : pend[w].op = "actualizar_usuario" /\ pend'[w] = Idle

\* C28: no operation changes the role, the active flag, the id or the
\* registration time of an existing user: a user who is stored before and
\* after a step keeps the four, the commit of an update-user request
\* (made by the user or by an administrator, whatever keys its body
\* carries) leaves the set of ids as it was and changes nothing but
\* nombre, correo and contrasena_hash, and every user a step creates is
\* active.
C28_ColumnasFijas ==
    [][/\ \A u \in usuarios, v \in usuarios' :
              u.id = v.id => /\ u.rol = v.rol
                             /\ u.activo = v.activo
                             /\ u.fecha_registro = v.fecha_registro
       /\ CommitDeUpdate => IdsDeUsuarios(usuarios') = IdsDeUsuarios(usuarios)
       /\ \A v \in usuarios' : v.id \notin IdsDeUsuarios(usuarios) => v.activo]_vars

\* An update-user request whose body asked for the role administrator, the
\* active flag false, the id 3 and a registration time was carried out on
\* user 2, and the row that came back has the role, the flag, the id and
\* the registration time it had.
C28_ExtrasIgnorados ==
    /\ resp.op = "actualizar_usuario"
    /\ resp.fase = "commit"
    /\ resp.status = 200
    /\ resp.arg.body.rol = ADMINISTRADOR
    /\ resp.arg.body.activo = "false"
    /\ resp.cuerpo.nombre = 2
    /\ resp.cuerpo.id = 2
    /\ resp.cuerpo.rol = USUARIO
    /\ resp.cuerpo.activo
    /\ resp.cuerpo.fecha_registro = 0
    /\ Fila(usuarios, 2).rol = USUARIO

\* The status of a create-favorite request of quien for the pair: the
\* checks in the order ownership, user exists, song exists, duplicate.
EstadoCreaFavorito(quien, id_usuario, id_cancion) ==
    IF quien.rol # ADMINISTRADOR /\ quien.id # id_usuario THEN 403
    ELSE IF id_usuario \notin IdsDeUsuarios(usuarios) THEN 404
    ELSE IF id_cancion \notin {c.id : c \in canciones} THEN 404
    ELSE IF \E f \in favoritos : f.id_usuario = id_usuario /\ f.id_cancion = id_cancion
    THEN 400
    ELSE 201

\* C30 (checked under SpecFavoritos): the two create-favorite operations are
\* equivalent: for the same store, the same caller and the same positive
\* (user id, song id), POST /favoritos and POST
\* /usuarios/{id}/favoritos/{id} give the same status, decided by the checks
\* in the order ownership (403), user exists (404), song exists (404),
\* duplicate (400), else 201, and the same resulting store: unchanged by a
\* refusal, and with the one new row of the pair after a 201.
C30_CrearFavoritoEquivalente ==
    [][/\ (/\ DeHandler(resp', CreaFavorito)
           /\ Autenticado(resp'.tok)
           /\ resp'.arg.id_usuario > 0
           /\ resp'.arg.id_cancion > 0)
          => /\ Store' = Store
             /\ IF EstadoCreaFavorito(Llamante(resp'.tok), resp'.arg.id_usuario,
                                      resp'.arg.id_cancion) = 201
                THEN /\ resp'.fase = "pendiente"
                     /\ \E w \in Workers :
                            /\ pend[w] = Idle
                            /\ pend'[w].op = resp'.op
                            /\ pend'[w].arg = resp'.arg
                ELSE /\ resp'.fase = "inicio"
                     /\ pend' = pend
                     /\ resp'.status = EstadoCreaFavorito(Llamante(resp'.tok),
                                                          resp'.arg.id_usuario,
                                                          resp'.arg.id_cancion)
       /\ \A w \in Workers :
             (pend[w].op \in CreaFavorito /\ pend'[w] = Idle)
                => /\ resp'.op = pend[w].op
                   /\ resp'.status = 201
                   /\ favoritos' = favoritos \cup
                          {[id |-> NextId(favoritos),
                            id_usuario |-> pend[w].arg.id_usuario,
                            id_cancion |-> pend[w].arg.id_cancion]}
                   /\ usuarios' = usuarios
                   /\ canciones' = canciones]_vars

\* POST /favoritos was refused with 403 for a user that does not exist (the
\* caller is compared with the user of the body before the user is looked
\* up), in a store that holds a Favorite created through the other endpoint
\* or this one.
C30_PropiedadAntesDeExistencia ==
    /\ resp.op = "crear_favorito"
    /\ resp.status = 403
    /\ ~Existe(usuarios, resp.arg.id_usuario)
    /\ favoritos # {}

(***************************************************************************)
(* SpecClaves: password changes and logins, one request at a time, with    *)
(* passwords of every length, and the endpoints that return a user.        *)
(***************************************************************************)
Claves == Passwords \cup {ContrasenaCorta} \cup ContrasenasLargas

\* UsuarioUpdate bodies that set a password.  The client writes the number
\* of the password into nombre as well, so that the stored nombre of a user
\* tells which password the user set last (the seeded and the registered
\* users have nombre 1 and password 1).
UpdatesDeClave == {[SinCampos EXCEPT !.nombre = v, !.contrasena = v] : v \in Claves}

CorreosSemilla == {1, 2}

\* The passwords the schemas accept (min_length=6, no max_length).
ClavesAceptadas == {p \in Claves : Largo(p) >= 6}

\* verificar_contrasena(p, hashear_contrasena(p2)), as a call of its own.
verificar_hash(p, p2) ==
    /\ resp' = Respuesta("verificar_contrasena", 200, "", "", NoToken, [p |-> p, p2 |-> p2],
                         verificar_contrasena(p, hashear_contrasena(p2)))
    /\ SinCambio

NextClaves ==
    \/ Listo /\ \E correo \in CorreosSemilla, contrasena \in Claves : login(correo, contrasena)
    \/ Listo /\ \E correo \in CorreosSemilla, contrasena \in Claves : login_json(correo, contrasena)
    \/ Listo /\ \E tok \in tokens, id \in CorreosSemilla, body \in UpdatesDeClave :
                   actualizar_usuario(1, tok, id, body)
    \/ Listo /\ actualizar_usuario_commit(1)
    \/ Listo /\ \E d \in RegistrosNuevos : registrar_usuario(1, d)
    \/ Listo /\ insertar_usuario_commit(1)
    \/ Listo /\ \E tok \in tokens : obtener_perfil(tok)
    \/ Listo /\ \E tok \in tokens : listar_usuarios(tok)
    \/ Listo /\ \E tok \in tokens, id \in UsuarioIds : obtener_usuario(tok, id)
    \/ Listo /\ \E p \in ClavesAceptadas, p2 \in ClavesAceptadas : verificar_hash(p, p2)
    \/ Entrega

SpecClaves == InitActivos /\ [][NextClaves]_vars

\* The password user id set last.
ClaveAnterior(id) == Fila(usuarios, id).nombre

\* A login as user id with password q passes the password check over the
\* rows of tabla.
ClaveAceptada(tabla, id, q) == verificar_contrasena(q, Fila(tabla, id).contrasena_hash)

\* The responses that carry a user show no password hash.
SinHash(r) ==
    /\ (/\ r.op \in {"registrar_usuario", "crear_usuario", "obtener_perfil",
                      "obtener_usuario", "actualizar_usuario"}
        /\ r.status \in {200, 201})
          => "contrasena_hash" \notin DOMAIN r.cuerpo
    /\ (r.op = "listar_usuarios" /\ r.status = 200)
          => \A u \in r.cuerpo : "contrasena_hash" \notin DOMAIN u

\* The step is the successful commit of an update-user request that
\* provides a password.
CambioDeClave(r) ==
    /\ r.op = "actualizar_usuario"
    /\ r.fase = "commit"
    /\ r.status = 200
    /\ r.arg.body.contrasena # Unset

\* A login request of an active user is answered 200 if its password passes
\* the check against the stored hash and 401 if not.
LoginSegunHash(r) ==
    (r.op \in Login /\ r.status # 422)
       => \A u \in usuarios :
             u.correo = r.arg.correo
                => IF ClaveAceptada(usuarios, u.id, r.arg.contrasena)
                   THEN r.status = 200 ELSE r.status = 401

\* C21: after a successful update-user request that provides a new password
\* the stored value is a hash of the new password: login with the new
\* password succeeds, login with the previous (different) password fails
\* with 401, and no response of any endpoint contains the password hash.
C21_ClaveNuevaSoloElla ==
    [][/\ (CambioDeClave(resp') /\ ClaveAnterior(resp'.arg.id) # resp'.arg.body.contrasena)
          => (/\ ClaveAceptada(usuarios', resp'.arg.id, resp'.arg.body.contrasena)
              /\ ~ClaveAceptada(usuarios', resp'.arg.id, ClaveAnterior(resp'.arg.id)))
       /\ LoginSegunHash(resp')
       /\ SinHash(resp')]_vars

\* The same holds when the previous password differs from the new one within
\* its first 72 bytes.
C21_ClaveNuevaDentroDe72 ==
    [][/\ (/\ CambioDeClave(resp')
            /\ Truncada(Bytes(ClaveAnterior(resp'.arg.id)))
                   # Truncada(Bytes(resp'.arg.body.contrasena)))
          => (/\ ClaveAceptada(usuarios', resp'.arg.id, resp'.arg.body.contrasena)
              /\ ~ClaveAceptada(usuarios', resp'.arg.id, ClaveAnterior(resp'.arg.id)))
       /\ LoginSegunHash(resp')
       /\ SinHash(resp')]_vars

\* A login with the previous password of 73 bytes was answered 200 after
\* the user had set another password of 73 bytes.
C21_ClaveAnteriorAceptada ==
    /\ resp.op \in Login
    /\ resp.status = 200
    /\ resp.arg.contrasena = 4
    /\ \E u \in usuarios : u.correo = resp.arg.correo /\ u.nombre = 5

\* C22: for all accepted plaintext passwords p and p2, verifying p against
\* hash(p) is true and verifying p against hash(p2) is false whenever p
\* differs from p2 (no truncation makes two different passwords verify
\* against the same hash).
C22_VerificaSoloLaMisma ==
    resp.op = "verificar_contrasena" => (resp.cuerpo <=> resp.arg.p = resp.arg.p2)

(***************************************************************************)
(* SpecFlujo: the end-to-end flow of TestIntegracion.test_flujo_completo    *)
(* (register, login, create song, mark it as favorite, list favorites),    *)
(* each request sent on the response of the one before, from the stores    *)
(* that an administrator's concurrent requests (create-favorite,           *)
(* delete-favorite, delete-user, delete-song) produce.  No request of      *)
(* another client is handled while the flow runs: those are handled        *)
(* between responses (Listo), the flow's on the response before.           *)
(***************************************************************************)
TokenAdmin == TokenInicial(UsuarioSemilla(1, ADMINISTRADOR, TRUE))

\* The response the client of the flow holds.
Registrado == resp.op = "registrar_usuario" /\ resp.fase = "commit" /\ resp.status = 201

Ingresado == resp.op \in {"login", "login_json"} /\ resp.status = 200

CancionCreada == resp.op = "crear_cancion" /\ resp.status = 201

Marcado == resp.op = "marcar_favorito" /\ resp.fase = "commit" /\ resp.status = 201

\* A request of the flow is between its first step and its commit.
EnCurso == resp.fase = "pendiente" /\ resp.op \in {"registrar_usuario", "marcar_favorito"}

NextFlujo ==
    \/ Listo /\ \E w \in Libres, d \in RegistrosNuevos : registrar_usuario(w, d)
    \/ EnCurso /\ \E w \in Workers : insertar_usuario_commit(w)
    \/ Registrado /\ login(resp.arg.correo, resp.arg.contrasena)
    \/ Registrado /\ login_json(resp.arg.correo, resp.arg.contrasena)
    \/ Ingresado /\ crear_cancion(resp.cuerpo.access_token, CancionNueva)
    \/ CancionCreada /\ \E w \in Libres :
                           marcar_favorito(w, resp.tok, Llamante(resp.tok).id, resp.cuerpo)
    \/ EnCurso /\ \E w \in Workers : pend[w].op = "marcar_favorito" /\ insertar_favorito_commit(w)
    \/ Marcado /\ \E tok \in tokens :
                     /\ Autenticado(tok)
                     /\ Llamante(tok).id = resp.arg.id_usuario
                     /\ Llamante(tok).rol = USUARIO
                     /\ listar_favoritos_usuario(tok, resp.arg.id_usuario)
    \/ Listo /\ \E w \in Libres, d \in FavoritoCreates : crear_favorito(w, TokenAdmin, d)
    \/ Listo /\ \E w \in Workers : pend[w].op = "crear_favorito" /\ insertar_favorito_commit(w)
    \/ Listo /\ \E w \in Libres, id \in FavoritoIds : eliminar_favorito(w, TokenAdmin, id)
    \/ Listo /\ \E w \in Workers : eliminar_favorito_commit(w)
    \/ Listo /\ \E w \in Libres, id \in UsuarioIds \ {1} : eliminar_usuario(w, TokenAdmin, id)
    \/ Listo /\ \E w \in Workers : eliminar_usuario_commit(w)
    \/ Listo /\ \E w \in Libres, id \in CancionIds : eliminar_cancion(w, TokenAdmin, id)
    \/ Listo /\ \E w \in Workers : eliminar_cancion_commit(w)
    \/ ~EnCurso /\ Entrega

SpecFlujo == InitActivos /\ [][NextFlujo]_vars

\* C23: from any state in which the email is free, the sequence register
\* user, login with the same credentials, create song with the returned
\* token, mark that song as favorite for the registered user id, list that
\* user's favorites succeeds at every step (201, 200, 201, 201, 200) and the
\* final list contains the created song.
C23_FlujoCompleto ==
    [][/\ (Listo /\ resp'.op = "registrar_usuario" /\ PorCorreo(resp'.arg.correo) = {})
          => resp'.fase = "pendiente"
       /\ (EnCurso /\ resp'.op = "registrar_usuario")
          => (resp'.status = 201 /\ resp'.cuerpo.correo = resp'.arg.correo)
       /\ (Registrado /\ resp'.op \in Login)
          => (/\ resp'.status = 200
              /\ resp'.cuerpo.access_token.sub = resp.arg.correo)
       /\ (Ingresado /\ resp'.op = "crear_cancion")
          => (resp'.status = 201 /\ Existe(canciones', resp'.cuerpo))
       /\ (CancionCreada /\ resp'.op = "marcar_favorito")
          => (/\ resp'.fase = "pendiente"
              /\ resp'.arg.id_cancion = resp.cuerpo
              /\ \E u \in usuarios : u.id = resp'.arg.id_usuario /\ u.correo = resp.tok.sub)
       /\ (EnCurso /\ resp'.op = "marcar_favorito") => resp'.status = 201
       /\ (Marcado /\ resp'.op = "listar_favoritos_usuario")
          => (/\ resp'.status = 200
              /\ resp'.arg = resp.arg.id_usuario
              /\ resp.arg.id_cancion \in resp'.cuerpo)]_vars

(***************************************************************************)
(* SpecToken: the JWT codec alone.  crear_access_token is called with any  *)
(* time-to-live (or none) and verificar_token with any presentable token,  *)
(* while time passes.                                                      *)
(***************************************************************************)
\* expires_delta values, in ticks; Unset is a call without expires_delta.
Ttls == (0..(MaxTtl * TicksPerSecond)) \cup {Unset}

emitir_token(sub, rol, ttl) ==
    LET tok == crear_access_token(sub, rol, ttl, now) IN
    /\ Cardinality(emitidos \cup {Emision(tok, Null, now, ttl)}) <= MaxTokens
    /\ tokens' = tokens \cup {tok}
    /\ emitidos' = emitidos \cup {Emision(tok, Null, now, ttl)}
    /\ resp' = Respuesta("crear_access_token", 200, "", "", NoToken, ttl, tok)
    /\ UNCHANGED <<usuarios, canciones, favoritos, now, pend>>

verificar(tok) ==
    LET td == verificar_token(tok, now) IN
    IF ~td.ok THEN Falla("verificar_token", td, tok, <<>>)
    ELSE /\ resp' = Respuesta("verificar_token", 200, "", "", tok, <<>>, td)
         /\ SinCambio

InitToken ==
    /\ InitStore({TRUE})
    /\ tokens = {}
    /\ emitidos = {}

NextToken ==
    \/ Listo /\ \E ttl \in Ttls : emitir_token(1, USUARIO, ttl)
    \/ Listo /\ \E tok \in Presentables \ {NoToken} : verificar(tok)
    \/ Listo /\ Tick
    \/ Entrega

SpecToken == InitToken /\ [][NextToken]_vars

\* The issuances of the token of the last response.
EmisionesDe(tok) == {e \in emitidos : e.tok = tok}

\* C7: a token issued with time-to-live T is accepted by verification at
\* every instant before issue time + T and rejected with 401 at every
\* instant after it.
C7_VentanaTtl ==
    resp.op = "verificar_token" =>
        \A e \in EmisionesDe(resp.tok) :
            (e.ttl # Unset /\ e.tok.sub # Null /\ EmisionesDe(resp.tok) = {e}) =>
                /\ now < e.iat + e.ttl => resp.status = 200
                /\ now > e.iat + e.ttl => resp.status = 401

\* C24: for every time-to-live value ttl passed to token issuance, a zero
\* ttl included, the issued token's expiration is issue time + ttl (in the
\* whole seconds of the exp claim); the default expiration window is used
\* only when no ttl is passed at all.
C24_ExpSegunTtl ==
    resp.op = "crear_access_token" =>
        /\ resp.arg # Unset => resp.cuerpo.exp = (now + resp.arg) \div TicksPerSecond
        /\ resp.arg = Unset => resp.cuerpo.exp = (now + DefaultTtl) \div TicksPerSecond

\* The same, for every ttl other than zero.
C24_ExpSegunTtlNoNulo ==
    (resp.op = "crear_access_token" /\ resp.arg # 0) =>
        /\ resp.arg # Unset => resp.cuerpo.exp = (now + resp.arg) \div TicksPerSecond
        /\ resp.arg = Unset => resp.cuerpo.exp = (now + DefaultTtl) \div TicksPerSecond

====
